---- MODULE Spec2Model ----
(***************************************************************************)
(* A model of the sorcerer orchestrator (src/src/sorcerer.rs) and of the   *)
(* apprentice RPC server (src/apprentice/src/server.rs).                   *)
(*                                                                         *)
(* SpecOrch   : one Sorcerer instance, its registry, its port counter and  *)
(*              the container runtime it drives.                           *)
(* SpecWorker : one apprentice server with concurrent RPC handlers.        *)
(* SpecLog    : the same server driven long enough to hit the history cap. *)
(* SpecAgent  : the server with the command engine (agent mode on or off).  *)
(* SpecCli    : one run of the command line: discovery, then summon NAMES,  *)
(*              rm NAMES or ps.                                             *)
(* SpecQuery  : the Sorcerer with list_apprentices and cast_spell as well.  *)
(* SpecNames  : summon_apprentice called with names around the length limit.*)
(* SpecKill   : the apprentice server with the kill RPC and its exit task,  *)
(*              the exit task scheduled fairly.                             *)
(* SpecRender : the command engine with listings and searches.             *)
(* SpecShow   : the show command asking an apprentice for its history.     *)
(* SpecLocks  : summon and banish with every lock acquisition a step of    *)
(*              its own, the tasks scheduled fairly.                       *)
(***************************************************************************)
EXTENDS Integers, Sequences, FiniteSets, TLC

VARIABLES
    \* ---- orchestrator (Sorcerer) ----
    phase,          \* "discover" | "ready" | "failed" | "crashed"
    pending,        \* container names still to be visited by discover_apprentices
    apprentices,    \* Sorcerer.apprentices : name -> Apprentice record
    next_port,      \* Sorcerer.next_port : u16
    containers,     \* the container runtime: container name -> container
    api_key_set,    \* whether ANTHROPIC_API_KEY is set in the environment
    reg_lock,       \* holder of the apprentices mutex (0 = free)
    task,           \* the concurrent orchestrator calls, one record per task
    hist,           \* the last two completed orchestrator calls, oldest first
    allocated,      \* ports handed out by summon_apprentice, in order
    observed,       \* ports seen by discover_apprentices
    ops_started,    \* number of orchestrator calls started
    \* ---- apprentice server ----
    state,          \* ApprenticeState.state
    spells_cast,    \* ApprenticeState.spells_cast
    last_spell_time,\* ApprenticeState.last_spell_time (Option as a set)
    chat_history,   \* ApprenticeState.chat_history
    handler,        \* the concurrent RPC handlers, one record per handler
    casts_started,  \* number of cast_spell calls received
    casts_ok,       \* number of cast_spell calls that returned success
    reply,          \* the most recent RPC response sent by the server
    agent_mode,     \* ApprenticeState.agent_mode
    memory,         \* CommandExecutor.memory : key -> value
    files,          \* the file system the commands act on : path -> content
    exec_lock,      \* holder of the command_executor mutex (0 = free)
    \* ---- command line (src/src/main.rs) ----
    cli,            \* the command being run: kind, names, position
    results,        \* the (name, result) pairs collected so far, by position
    summary,        \* the "successes/total" line, once printed
    \* ---- apprentice process (src/apprentice/src/main.rs) ----
    process,        \* whether the process lives, and the exit tasks it spawned
    \* ---- the port counter of the Sorcerer ----
    port_lock       \* holder of the next_port mutex (0 = free)

orchVars == <<phase, pending, apprentices, next_port, containers, api_key_set,
              reg_lock, task, hist, allocated, observed, ops_started>>
workerVars == <<state, spells_cast, last_spell_time, chat_history, handler,
                casts_started, casts_ok, reply>>
agentVars == <<agent_mode, memory, files, exec_lock>>
cliVars == <<cli, results, summary>>
procVars == <<process>>
lockVars == <<port_lock>>
vars == <<orchVars, workerVars, agentVars, cliVars, procVars, lockVars>>
\* what a step of the apprentice server, of the command engine and of the
\* sorcerer leaves alone
workerRest == <<orchVars, agentVars, cliVars, procVars, lockVars>>
agentRest == <<orchVars, cliVars, agent_mode, procVars, lockVars>>
orchRest == <<workerVars, agentVars, cliVars, procVars, lockVars>>

----------------------------------------------------------------------------
\* Bounds of the model

NumTasks == 2
MaxOps == 2
NumHandlers == 2
MaxCasts == 3
MaxCastsLog == 52
MaxAgentCasts == 2
MaxBatch == 3

Tasks == 1..NumTasks
Handlers == 1..NumHandlers

----------------------------------------------------------------------------
\* Program constants

U16Max == 65535
MaxNameLen == 32
DefaultGrpcPort == 50051
DefaultStartingPort == 50100
HistoryCap == 100

\* Names are sequences of characters.
AlnumChars == {"a", "b", "7", "e-acute"}

ValidNames == {<<"a">>, <<"b", "-", "7">>}
InvalidNames == {<<"a", " ">>}
Names == ValidNames \cup InvalidNames
\* names of the apprentice containers that may exist before the process starts
ExistingNames == {<<"a">>}

\* SORCERER_STARTING_PORT may be any u16
StartPorts == {DefaultStartingPort, U16Max}
\* GRPC_PORT values found in the environment of existing containers
EnvPorts == {DefaultStartingPort, U16Max}

None == {}
Some(x) == {x}
Unwrap(o) == CHOOSE x \in o : TRUE

----------------------------------------------------------------------------
\* Sorcerer: pure helpers

\* char::len_utf8: "e-acute" stands for the two-byte letter U+00E9, the other
\* characters of the model are ASCII
len_utf8(c) == IF c = "e-acute" THEN 2 ELSE 1

\* str::len: the length of the name in bytes
RECURSIVE len(_)
len(name) == IF name = <<>> THEN 0 ELSE len_utf8(Head(name)) + len(Tail(name))

\* char::is_alphanumeric
is_alphanumeric(c) == c \in AlnumChars

is_valid_apprentice_name(name) ==
    /\ name # <<>>
    /\ len(name) <= MaxNameLen
    /\ \A i \in 1..Len(name) : is_alphanumeric(name[i]) \/ name[i] = "-" \/ name[i] = "_"

contains_key_never(map, name) == FALSE

contains_key(map, name) == name \in DOMAIN map

MapInsert(map, name, rec) ==
    [n \in (DOMAIN map) \cup {name} |-> IF n = name THEN rec ELSE map[n]]

MapRemove_keeps(map, name) == map

MapRemove(map, name) ==
    [n \in (DOMAIN map) \ {name} |-> map[n]]

\* port + 1 / *next_port += 1 before the u16 range is applied
Observe(np, port) == IF port >= np THEN port + 1 ELSE np

PortFromEnv(c, inspect_ok) ==
    IF inspect_ok /\ c.env_port # None THEN Unwrap(c.env_port) ELSE DefaultGrpcPort

IdleTask == [pc |-> "idle", kind |-> "none", name |-> <<>>, port |-> 0,
             rec |-> None, calls |-> <<>>]

NoOp == [kind |-> "none", name |-> <<>>, result |-> "none", calls |-> <<>>,
         value |-> <<>>]

\* the call that returned last, and the one before it (its call log and the
\* value it returned dropped)
Returned(h, kind, name, res, calls) ==
    <<[h[2] EXCEPT !.calls = <<>>, !.value = <<>>],
      [kind |-> kind, name |-> name, result |-> res, calls |-> calls,
       value |-> <<>>]>>

----------------------------------------------------------------------------
\* Sorcerer::new : the state of the process when discover_apprentices starts

ExistingContainers ==
    [env_port : {None} \cup {Some(p) : p \in EnvPorts}, state : {"running", "exited"}]

InitOrch ==
    /\ phase = "discover"
    /\ \E S \in SUBSET ExistingNames : containers \in [S -> ExistingContainers]
    /\ pending = DOMAIN containers
    /\ apprentices = <<>>
    /\ next_port \in StartPorts
    /\ api_key_set \in BOOLEAN
    /\ reg_lock = 0
    /\ port_lock = 0
    /\ task = [t \in Tasks |-> IdleTask]
    /\ hist = <<NoOp, NoOp>>
    /\ allocated = <<>>
    /\ observed = {}
    /\ ops_started = 0

\* self.docker.list_containers(options).await? fails: new() returns the error
DiscoverListFails ==
    /\ phase = "discover"
    /\ pending = DOMAIN containers
    /\ apprentices = <<>>
    /\ phase' = "failed"
    /\ pending' = {}
    /\ UNCHANGED <<apprentices, next_port, containers, api_key_set, reg_lock,
                   task, hist, allocated, observed, ops_started>>

\* a variant that leaves out a running container it cannot connect to
DiscoverOne_skips_unreachable(n, inspect_ok, connect_ok, wraps) ==
    /\ phase = "discover"
    /\ n \in pending
    /\ LET c == containers[n]
           port == PortFromEnv(c, inspect_ok)
           np == Observe(next_port, port)
           client == c.state = "running" /\ connect_ok
       IN  /\ pending' = pending \ {n}
           /\ observed' = observed \cup {port}
           /\ IF np > U16Max /\ ~wraps
                THEN \* overflow check: attempt to add with overflow
                     /\ phase' = "crashed"
                     /\ UNCHANGED <<next_port, apprentices>>
                ELSE /\ next_port' = np % (U16Max + 1)
                     /\ apprentices' = IF c.state = "running" /\ ~connect_ok
                                         THEN apprentices
                                         ELSE MapInsert(apprentices, n,
                            [container_id |-> n, port |-> port, client |-> client])
                     /\ UNCHANGED phase
    /\ UNCHANGED <<containers, api_key_set, reg_lock, task, hist, allocated,
                   ops_started>>

\* a variant that leaves out a container that is not running
DiscoverOne_skips_stopped(n, inspect_ok, connect_ok, wraps) ==
    /\ phase = "discover"
    /\ n \in pending
    /\ LET c == containers[n]
           port == PortFromEnv(c, inspect_ok)
           np == Observe(next_port, port)
           client == c.state = "running" /\ connect_ok
       IN  /\ pending' = pending \ {n}
           /\ observed' = observed \cup {port}
           /\ IF np > U16Max /\ ~wraps
                THEN \* overflow check: attempt to add with overflow
                     /\ phase' = "crashed"
                     /\ UNCHANGED <<next_port, apprentices>>
                ELSE /\ next_port' = np % (U16Max + 1)
                     /\ apprentices' = IF c.state # "running"
                                         THEN apprentices
                                         ELSE MapInsert(apprentices, n,
                            [container_id |-> n, port |-> port, client |-> client])
                     /\ UNCHANGED phase
    /\ UNCHANGED <<containers, api_key_set, reg_lock, task, hist, allocated,
                   ops_started>>

\* one iteration of the loop of discover_apprentices over a listed container;
\* port + 1 on a u16 wraps (release build) or panics (overflow checks on)
DiscoverOne(n, inspect_ok, connect_ok, wraps) ==
    /\ phase = "discover"
    /\ n \in pending
    /\ LET c == containers[n]
           port == PortFromEnv(c, inspect_ok)
           np == Observe(next_port, port)
           client == c.state = "running" /\ connect_ok
       IN  /\ pending' = pending \ {n}
           /\ observed' = observed \cup {port}
           /\ IF np > U16Max /\ ~wraps
                THEN \* overflow check: attempt to add with overflow
                     /\ phase' = "crashed"
                     /\ UNCHANGED <<next_port, apprentices>>
                ELSE /\ next_port' = np % (U16Max + 1)
                     /\ apprentices' = MapInsert(apprentices, n,
                            [container_id |-> n, port |-> port, client |-> client])
                     /\ UNCHANGED phase
    /\ UNCHANGED <<containers, api_key_set, reg_lock, task, hist, allocated,
                   ops_started>>

DiscoverDone ==
    /\ phase = "discover"
    /\ pending = {}
    /\ phase' = "ready"
    /\ UNCHANGED <<pending, apprentices, next_port, containers, api_key_set,
                   reg_lock, task, hist, allocated, observed, ops_started>>

----------------------------------------------------------------------------
\* Completion of an orchestrator call: the result is returned to the caller
\* and every guard held by the call is dropped.

Finish(t, res, call, ok) ==
    /\ task' = [task EXCEPT ![t] = IdleTask]
    /\ hist' = Returned(hist, task[t].kind, task[t].name, res,
                        IF call = "" THEN task[t].calls
                                     ELSE Append(task[t].calls, <<call, ok>>))
    /\ reg_lock' = IF reg_lock = t THEN 0 ELSE reg_lock

Step(t, newpc, call, ok) ==
    /\ task' = [task EXCEPT ![t].pc = newpc, ![t].calls = Append(@, <<call, ok>>)]
    /\ UNCHANGED <<hist, reg_lock>>

\* A new call takes the lowest free task slot (free slots are interchangeable).
CanStart(t) ==
    /\ phase = "ready"
    /\ task[t].pc = "idle"
    /\ \A u \in Tasks : u < t => task[u].pc # "idle"
    /\ ops_started < MaxOps

----------------------------------------------------------------------------
\* Sorcerer::summon_apprentice

\* lines 192-198: the name is validated before the registry is locked
SummonBegin(t, name) ==
    /\ CanStart(t)
    /\ ops_started' = ops_started + 1
    /\ IF is_valid_apprentice_name(name)
         THEN /\ task' = [task EXCEPT ![t] = [IdleTask EXCEPT !.pc = "s_wait",
                                      !.kind = "summon", !.name = name]]
              /\ UNCHANGED <<hist, reg_lock>>
         ELSE /\ hist' = Returned(hist, "summon", name, "InvalidName", <<>>)
              /\ UNCHANGED <<task, reg_lock>>
    /\ UNCHANGED <<phase, pending, apprentices, next_port, containers, api_key_set,
                   allocated, observed>>

\* lines 200-216: lock the registry, reject a registered name, take a port,
\* read the API key
SummonLocked(t, wraps) ==
    /\ phase = "ready"
    /\ task[t].pc = "s_wait"
    /\ reg_lock = 0
    /\ IF contains_key(apprentices, task[t].name)
         THEN /\ Finish(t, "AlreadyExists", "", TRUE)
              /\ UNCHANGED <<phase, next_port, allocated>>
         ELSE IF next_port + 1 > U16Max /\ ~wraps
         THEN \* overflow check: attempt to add with overflow
              /\ phase' = "crashed"
              /\ UNCHANGED <<task, hist, reg_lock, next_port, allocated>>
         ELSE /\ next_port' = (next_port + 1) % (U16Max + 1)
              /\ allocated' = Append(allocated, next_port)
              /\ UNCHANGED phase
              /\ IF api_key_set
                   THEN /\ task' = [task EXCEPT ![t].pc = "s_create", ![t].port = next_port]
                        /\ reg_lock' = t
                        /\ UNCHANGED hist
                   ELSE /\ task' = [task EXCEPT ![t] = IdleTask]
                        /\ hist' = Returned(hist, "summon", task[t].name,
                                             "EnvVarMissing", <<>>)
                        /\ UNCHANGED reg_lock
    /\ UNCHANGED <<pending, apprentices, containers, api_key_set, observed, ops_started>>

\* lines 234-243: self.docker.create_container(...).await?
SummonCreate(t, ok) ==
    /\ phase = "ready"
    /\ task[t].pc = "s_create"
    /\ IF ok /\ task[t].name \notin DOMAIN containers
         THEN /\ containers' = MapInsert(containers, task[t].name,
                                  [env_port |-> Some(task[t].port), state |-> "created"])
              /\ Step(t, "s_start", "create", TRUE)
         ELSE /\ Finish(t, "ContainerCreateFailed", "create", FALSE)
              /\ UNCHANGED containers
    /\ UNCHANGED <<phase, pending, apprentices, next_port, api_key_set, allocated,
                   observed, ops_started>>

\* lines 245-247: self.docker.start_container(...).await?
SummonStart(t, ok) ==
    /\ phase = "ready"
    /\ task[t].pc = "s_start"
    /\ IF ok /\ task[t].name \in DOMAIN containers
         THEN /\ containers' = [containers EXCEPT ![task[t].name].state = "running"]
              /\ Step(t, "s_connect", "start", TRUE)
         ELSE /\ Finish(t, "ContainerStartFailed", "start", FALSE)
              /\ UNCHANGED containers
    /\ UNCHANGED <<phase, pending, apprentices, next_port, api_key_set, allocated,
                   observed, ops_started>>

\* a variant that registers the record before it connects
SummonConnect_registers_first(t, ok) ==
    /\ phase = "ready"
    /\ task[t].pc = "s_connect"
    /\ apprentices' = MapInsert(apprentices, task[t].name,
           [container_id |-> task[t].name, port |-> task[t].port, client |-> ok])
    /\ IF ok THEN Finish(t, "Ok", "connect", TRUE)
             ELSE Finish(t, "RpcUnreachable", "connect", FALSE)
    /\ UNCHANGED <<phase, pending, next_port, containers, api_key_set, allocated,
                   observed, ops_started>>

\* a variant that removes the container again when the connect fails
SummonConnect_cleans_up(t, ok) ==
    /\ phase = "ready"
    /\ task[t].pc = "s_connect"
    /\ IF ok
         THEN /\ apprentices' = MapInsert(apprentices, task[t].name,
                    [container_id |-> task[t].name, port |-> task[t].port, client |-> TRUE])
              /\ Finish(t, "Ok", "connect", TRUE)
              /\ UNCHANGED containers
         ELSE /\ Finish(t, "RpcUnreachable", "connect", FALSE)
              /\ containers' = MapRemove(containers, task[t].name)
              /\ UNCHANGED apprentices
    /\ UNCHANGED <<phase, pending, next_port, api_key_set, allocated,
                   observed, ops_started>>

\* lines 249-270: sleep, ApprenticeClient::connect(addr).await?, insert the record
SummonConnect(t, ok) ==
    /\ phase = "ready"
    /\ task[t].pc = "s_connect"
    /\ IF ok
         THEN /\ apprentices' = MapInsert(apprentices, task[t].name,
                    [container_id |-> task[t].name, port |-> task[t].port, client |-> TRUE])
              /\ Finish(t, "Ok", "connect", TRUE)
         ELSE /\ Finish(t, "RpcUnreachable", "connect", FALSE)
              /\ UNCHANGED apprentices
    /\ UNCHANGED <<phase, pending, next_port, containers, api_key_set, allocated,
                   observed, ops_started>>

----------------------------------------------------------------------------
\* Sorcerer::banish_apprentice

BanishBegin(t, name) ==
    /\ CanStart(t)
    /\ ops_started' = ops_started + 1
    /\ task' = [task EXCEPT ![t] = [IdleTask EXCEPT !.pc = "b_wait",
                                    !.kind = "banish", !.name = name]]
    /\ UNCHANGED <<phase, pending, apprentices, next_port, containers, api_key_set,
                   reg_lock, hist, allocated, observed>>

\* a variant that still asks the runtime to stop the container of that name
BanishNotFound_stops(t) ==
    /\ Finish(t, "NotFound", "stop", FALSE)
    /\ UNCHANGED apprentices

\* line 312: .ok_or_else(|| anyhow!("Apprentice {} not found", name))?
BanishNotFound(t) ==
    /\ Finish(t, "NotFound", "", TRUE)
    /\ UNCHANGED apprentices

\* lines 309-312: lock the registry and take the record out of the map
BanishLocked(t) ==
    /\ phase = "ready"
    /\ task[t].pc = "b_wait"
    /\ reg_lock = 0
    /\ IF contains_key(apprentices, task[t].name)
         THEN /\ apprentices' = MapRemove(apprentices, task[t].name)
              /\ task' = [task EXCEPT ![t].rec = Some(apprentices[task[t].name]),
                                      ![t].pc = IF apprentices[task[t].name].client
                                                  THEN "b_rpc" ELSE "b_stop"]
              /\ reg_lock' = t
              /\ UNCHANGED hist
         ELSE BanishNotFound(t)
    /\ UNCHANGED <<phase, pending, next_port, containers, api_key_set, allocated,
                   observed, ops_started>>

\* lines 315-321: let _ = client.banish(...).await
BanishRpc(t, ok) ==
    /\ phase = "ready"
    /\ task[t].pc = "b_rpc"
    /\ Step(t, "b_stop", "banish", ok)
    /\ UNCHANGED <<phase, pending, apprentices, next_port, containers, api_key_set,
                   allocated, observed, ops_started>>

\* a variant that returns the error of stop_container
BanishStop_aborts(t, ok) ==
    /\ phase = "ready"
    /\ task[t].pc = "b_stop"
    /\ LET id == Unwrap(task[t].rec).container_id
           done == ok /\ id \in DOMAIN containers
       IN  IF done
             THEN /\ containers' = [containers EXCEPT ![id].state = "exited"]
                  /\ Step(t, "b_remove", "stop", TRUE)
             ELSE /\ Finish(t, "ContainerStopFailed", "stop", FALSE)
                  /\ UNCHANGED containers
    /\ UNCHANGED <<phase, pending, apprentices, next_port, api_key_set,
                   allocated, observed, ops_started>>

\* lines 324-330: stop_container; an error is only logged
BanishStop(t, ok) ==
    /\ phase = "ready"
    /\ task[t].pc = "b_stop"
    /\ LET id == Unwrap(task[t].rec).container_id
           done == ok /\ id \in DOMAIN containers
       IN  /\ containers' = IF done THEN [containers EXCEPT ![id].state = "exited"]
                                    ELSE containers
           /\ Step(t, "b_remove", "stop", done)
    /\ UNCHANGED <<phase, pending, apprentices, next_port, api_key_set,
                   allocated, observed, ops_started>>

\* lines 332-343: remove_container(force).await?
BanishRemove(t, ok) ==
    /\ phase = "ready"
    /\ task[t].pc = "b_remove"
    /\ LET id == Unwrap(task[t].rec).container_id
       IN  IF ok /\ id \in DOMAIN containers
             THEN /\ containers' = MapRemove(containers, id)
                  /\ Finish(t, "Ok", "remove", TRUE)
             ELSE /\ Finish(t, "ContainerRemoveFailed", "remove", FALSE)
                  /\ UNCHANGED containers
    /\ UNCHANGED <<phase, pending, apprentices, next_port, api_key_set,
                   allocated, observed, ops_started>>

----------------------------------------------------------------------------
\* ApprenticeServer (src/apprentice/src/server.rs)

\* APPRENTICE_NAME of the modelled apprentice
ApprenticeName == "merlin"

\* texts are sequences of words; the empty text is <<>>
Incantations == {<<"x">>, <<"y">>}
Times == {1, 2}
HistoryLines == {0, 1, 3, 7}

\* incantations that make the LLM answer with JSON: a batch of file commands,
\* a batch of memory commands, an empty batch, a batch with an unknown command
LlmScript ==
    (<<"files">> :> <<"{commands:[", "{cmd:Write,path:p1,content:a}",
                      "{cmd:Delete,path:bad}", "{cmd:Write,path:p2,content:b}", "]}">>) @@
    (<<"notes">> :> <<"{commands:[", "{cmd:Remember,key:k,value:a}",
                      "{cmd:Think,reasoning:r}", "{cmd:Recall,key:k}",
                      "{cmd:Recall,key:z}", "{cmd:Delete,path:p1}", "]}">>) @@
    (<<"nothing">> :> <<"{commands:[", "]}">>) @@
    (<<"fly">> :> <<"{commands:[", "{cmd:Fly}", "]}">>) @@
    (<<"ls">> :> <<"{commands:[", "{cmd:List,path:d10}", "{cmd:Think,reasoning:r}",
                   "{cmd:List,path:d11}", "{cmd:List,path:d0}", "]}">>) @@
    (<<"grep">> :> <<"{commands:[", "{cmd:Search,pattern:s5}", "{cmd:Delete,path:bad}",
                     "{cmd:Search,pattern:s6}", "{cmd:Search,pattern:s0}", "]}">>)

\* the text the LLM returns for an incantation
Response(inc) == IF inc \in DOMAIN LlmScript THEN LlmScript[inc] ELSE <<"re">> \o inc

IdleHandler == [pc |-> "idle", incantation |-> <<>>, conversation_history |-> <<>>,
                response |-> None,
                \* handle_agent_response: commands still to run, report lines,
                \* commands run so far with their outcome, final_response
                todo |-> <<>>, results |-> <<>>, done |-> <<>>, final |-> None]

NoReply == [rpc |-> "none"]

\* the apprentice process while it serves, no exit task spawned
Serving == [alive |-> TRUE, exit_tasks |-> 0]

\* ApprenticeServer::new, lines 57-65
InitWorker ==
    /\ process = Serving
    /\ state = "idle"
    /\ spells_cast = 0
    /\ last_spell_time = None
    /\ chat_history = <<>>
    /\ handler = [h \in Handlers |-> IdleHandler]
    /\ casts_started = 0
    /\ casts_ok = 0
    /\ reply = NoReply

\* lines 179-185: the two pushes of one turn
PushTurn_request_only(log, name, inc, resp) ==
    Append(log, [speaker |-> "Sorcerer", text |-> inc])

PushTurn(log, name, inc, resp) ==
    Append(Append(log, [speaker |-> "Sorcerer", text |-> inc]),
           [speaker |-> name, text |-> resp])

\* lines 188-191: keep only the last 100 lines
Trim_to_cap_minus_one(log) ==
    IF Len(log) > HistoryCap
      THEN SubSeq(log, Len(log) - HistoryCap + 2, Len(log))
      ELSE log

Trim(log) ==
    IF Len(log) > HistoryCap
      THEN SubSeq(log, Len(log) - HistoryCap + 1, Len(log))
      ELSE log

\* a variant that slices from the front of the history
LastLines_first(log, lines) ==
    IF lines = 0 THEN log
    ELSE SubSeq(log, 1, IF Len(log) > lines THEN lines ELSE Len(log))

\* lines 238-247: the last n lines, all of them when n is 0
LastLines(log, lines) ==
    IF lines = 0 THEN log
    ELSE LET start == IF Len(log) > lines THEN Len(log) - lines ELSE 0
         IN  SubSeq(log, start + 1, Len(log))

\* lines 135-141: a cast_spell request arrives; the state becomes "casting"
CastBegin(h, inc, max) ==
    /\ handler[h].pc = "idle"
    /\ casts_started < max
    /\ casts_started' = casts_started + 1
    /\ state' = "casting"
    /\ handler' = [handler EXCEPT ![h] = [IdleHandler EXCEPT !.pc = "c_read",
                                          !.incantation = inc]]
    /\ UNCHANGED <<spells_cast, last_spell_time, chat_history, casts_ok, reply>>

\* lines 144-151: copy the conversation history out of the state
CastRead(h) ==
    /\ handler[h].pc = "c_read"
    /\ handler' = [handler EXCEPT ![h].pc = "c_llm",
                                  ![h].conversation_history = chat_history]
    /\ UNCHANGED <<state, spells_cast, last_spell_time, chat_history,
                   casts_started, casts_ok, reply>>

\* lines 153-171: send_message_with_system(...).await returns Ok or Err.
\* The copied history is not read again after the call.  Without agent mode
\* final_response is the response itself.
CastLlm(h, ok) ==
    /\ handler[h].pc = "c_llm"
    /\ handler' = [handler EXCEPT
                     ![h].pc = IF ~ok THEN "c_err"
                               ELSE IF agent_mode THEN "c_agent" ELSE "c_ok",
                     ![h].conversation_history = <<>>,
                     ![h].response = IF ok THEN Some(Response(handler[h].incantation))
                                           ELSE None,
                     ![h].final = IF ok /\ ~agent_mode
                                    THEN Some(Response(handler[h].incantation))
                                    ELSE None]
    /\ UNCHANGED <<state, spells_cast, last_spell_time, chat_history,
                   casts_started, casts_ok, reply>>

----------------------------------------------------------------------------
\* The command engine (src/apprentice/src/commands.rs) and
\* ApprenticeServer::handle_agent_response

\* "bad" is a path inside a directory that does not exist
WritablePaths == {"p1", "p2"}

Cmd(c, a1, a2) == [cmd |-> c, arg1 |-> a1, arg2 |-> a2]

\* serde: the JSON objects that deserialize into a Command, and the Command
CommandJson ==
    ("{cmd:Write,path:p1,content:a}" :> Cmd("Write", "p1", "a")) @@
    ("{cmd:Write,path:p2,content:b}" :> Cmd("Write", "p2", "b")) @@
    ("{cmd:Delete,path:bad}" :> Cmd("Delete", "bad", "")) @@
    ("{cmd:Delete,path:p1}" :> Cmd("Delete", "p1", "")) @@
    ("{cmd:Remember,key:k,value:a}" :> Cmd("Remember", "k", "a")) @@
    ("{cmd:Recall,key:k}" :> Cmd("Recall", "k", "")) @@
    ("{cmd:Recall,key:z}" :> Cmd("Recall", "z", "")) @@
    ("{cmd:Think,reasoning:r}" :> Cmd("Think", "r", "")) @@
    ("{cmd:List,path:d0}" :> Cmd("List", "d0", "")) @@
    ("{cmd:List,path:d10}" :> Cmd("List", "d10", "")) @@
    ("{cmd:List,path:d11}" :> Cmd("List", "d11", "")) @@
    ("{cmd:Search,pattern:s0}" :> Cmd("Search", "s0", "")) @@
    ("{cmd:Search,pattern:s5}" :> Cmd("Search", "s5", "")) @@
    ("{cmd:Search,pattern:s6}" :> Cmd("Search", "s6", ""))

\* a variant that reads any text that is not a batch as the empty batch
parse_commands_lenient(response) == Some(<<>>)

\* serde_json::from_str::<CommandBatch>: Some(commands) or None for an error
parse_commands(response) ==
    IF /\ Len(response) >= 2
       /\ response[1] = "{commands:["
       /\ response[Len(response)] = "]}"
       /\ \A i \in 2..(Len(response) - 1) : response[i] \in DOMAIN CommandJson
      THEN Some([i \in 1..(Len(response) - 2) |-> CommandJson[response[i + 1]]])
      ELSE None

Success(msg) == [kind |-> "Success", msg |-> msg]
Error(msg) == [kind |-> "Error", msg |-> msg]
Nothing == [kind |-> "None", msg |-> <<>>]
FileList(items) == [kind |-> "FileList", msg |-> items]
SearchResults(items) == [kind |-> "SearchResults", msg |-> items]

\* format!("{}", n) for the numbers that occur
Digits == <<"0", "1", "2", "3", "4", "5", "6", "7", "8", "9", "10", "11">>
to_string(n) == Digits[n + 1]

\* the directories the List command is run on, with their number of entries
Dirs == ("d0" :> 0) @@ ("d10" :> 10) @@ ("d11" :> 11)

\* the patterns the Search command is run with, with their number of matches
Patterns == ("s0" :> 0) @@ ("s5" :> 5) @@ ("s6" :> 6)

\* execute_list: one FileInfo per entry of the directory, the first a directory
read_dir(d) ==
    [i \in 1..Dirs[d] |-> [is_dir |-> (i = 1), path |-> d \o "/" \o to_string(i)]]

\* execute_search: one SearchMatch per match line of rg --json
rg(pat) ==
    [i \in 1..Patterns[pat] |-> [file |-> "f", line |-> to_string(i), content |-> pat]]

\* CommandExecutor::execute: the CommandResult of a command in the current
\* file system and memory
execute(c) ==
    CASE c.cmd = "Write" ->
           IF c.arg1 \in WritablePaths
             THEN Success(<<"Successfully", "wrote", "to", c.arg1>>)
             ELSE Error(<<"Failed", "to", "write", "to", c.arg1>>)
      [] c.cmd = "Delete" ->
           IF c.arg1 \in DOMAIN files
             THEN Success(<<"Successfully", "deleted", c.arg1>>)
             ELSE Error(<<"Failed", "to", "delete", c.arg1>>)
      [] c.cmd = "Remember" -> Success(<<"Remembered:", c.arg1>>)
      [] c.cmd = "Recall" ->
           IF c.arg1 \in DOMAIN memory
             THEN Success(<<memory[c.arg1]>>)
             ELSE Error(<<"No", "memory", "found", "for", "key:", c.arg1>>)
      [] c.cmd = "List" -> FileList(read_dir(c.arg1))
      [] c.cmd = "Search" -> SearchResults(rg(c.arg1))
      [] OTHER -> Nothing

\* the file system after the command
FilesAfter(c) ==
    CASE c.cmd = "Write" /\ c.arg1 \in WritablePaths -> MapInsert(files, c.arg1, c.arg2)
      [] c.cmd = "Delete" /\ c.arg1 \in DOMAIN files -> MapRemove(files, c.arg1)
      [] OTHER -> files

\* self.memory after the command
MemoryAfter(c) ==
    IF c.cmd = "Remember" THEN MapInsert(memory, c.arg1, c.arg2) ELSE memory

\* iter().take(n)
Take(q, n) == SubSeq(q, 1, IF Len(q) < n THEN Len(q) ELSE n)

\* a variant that prints the "more" line for every listing and search
Render_always_more(r) ==
    CASE r.kind = "Success" -> << <<"+">> \o r.msg >>
      [] r.kind = "Error" -> << <<"x">> \o r.msg >>
      [] r.kind = "FileList" ->
           << <<"Found", to_string(Len(r.msg)), "files">> >>
           \o [i \in 1..Len(Take(r.msg, 10)) |->
                 <<" ", IF r.msg[i].is_dir THEN "dir" ELSE "file", r.msg[i].path>>]
           \o << <<" ", "...", "and",
                   to_string(IF Len(r.msg) > 10 THEN Len(r.msg) - 10 ELSE 0), "more">> >>
      [] r.kind = "SearchResults" ->
           << <<"Found", to_string(Len(r.msg)), "matches">> >>
           \o [i \in 1..Len(Take(r.msg, 5)) |->
                 <<" ", r.msg[i].file, ":", r.msg[i].line, "-", r.msg[i].content>>]
           \o << <<" ", "...", "and",
                   to_string(IF Len(r.msg) > 5 THEN Len(r.msg) - 5 ELSE 0), "more">> >>
      [] OTHER -> <<>>

\* lines 88-115: the report lines of one CommandResult; "+" stands for the
\* check mark, "x" for the cross, "dir" and "file" for the two icons
Render(r) ==
    CASE r.kind = "Success" -> << <<"+">> \o r.msg >>
      [] r.kind = "Error" -> << <<"x">> \o r.msg >>
      [] r.kind = "FileList" ->
           << <<"Found", to_string(Len(r.msg)), "files">> >>
           \o [i \in 1..Len(Take(r.msg, 10)) |->
                 <<" ", IF r.msg[i].is_dir THEN "dir" ELSE "file", r.msg[i].path>>]
           \o (IF Len(r.msg) > 10
                 THEN << <<" ", "...", "and", to_string(Len(r.msg) - 10), "more">> >>
                 ELSE <<>>)
      [] r.kind = "SearchResults" ->
           << <<"Found", to_string(Len(r.msg)), "matches">> >>
           \o [i \in 1..Len(Take(r.msg, 5)) |->
                 <<" ", r.msg[i].file, ":", r.msg[i].line, "-", r.msg[i].content>>]
           \o (IF Len(r.msg) > 5
                 THEN << <<" ", "...", "and", to_string(Len(r.msg) - 5), "more">> >>
                 ELSE <<>>)
      [] OTHER -> <<>>

\* results.join("\n")
RECURSIVE Join(_)
Join(lines) ==
    IF lines = <<>> THEN <<>>
    ELSE IF Len(lines) = 1 THEN lines[1]
    ELSE lines[1] \o <<"\n">> \o Join(Tail(lines))

\* a loop that gives up at the first command that fails
Remaining_stops_at_error(todo, r) == IF r.kind = "Error" THEN <<>> ELSE Tail(todo)

\* line 84: the commands left after one iteration of the loop
Remaining(todo, r) == Tail(todo)

\* lines 79-80, 120-124: parse the response; text that is not a batch is the result
AgentParse(h) ==
    /\ handler[h].pc = "c_agent"
    /\ LET response == Unwrap(handler[h].response)
           batch == parse_commands(response)
       IN  handler' = IF batch = None
                        THEN [handler EXCEPT ![h].pc = "c_ok", ![h].final = Some(response)]
                        ELSE [handler EXCEPT ![h].pc = "c_lock", ![h].todo = Unwrap(batch)]
    /\ UNCHANGED <<state, spells_cast, last_spell_time, chat_history,
                   casts_started, casts_ok, reply, memory, files, exec_lock>>

\* a variant that does not wait for the command executor
AgentLock_no_wait(h) ==
    /\ handler[h].pc = "c_lock"
    /\ exec_lock' = h
    /\ handler' = [handler EXCEPT ![h].pc = "c_exec"]
    /\ UNCHANGED <<state, spells_cast, last_spell_time, chat_history,
                   casts_started, casts_ok, reply, memory, files>>

\* line 82: self.command_executor.lock().await
AgentLock(h) ==
    /\ handler[h].pc = "c_lock"
    /\ exec_lock = 0
    /\ exec_lock' = h
    /\ handler' = [handler EXCEPT ![h].pc = "c_exec"]
    /\ UNCHANGED <<state, spells_cast, last_spell_time, chat_history,
                   casts_started, casts_ok, reply, memory, files>>

\* lines 84-116: one iteration of the loop over the batch
AgentExec(h) ==
    /\ handler[h].pc = "c_exec"
    /\ handler[h].todo # <<>>
    /\ LET c == Head(handler[h].todo)
           r == execute(c)
       IN  /\ files' = FilesAfter(c)
           /\ memory' = MemoryAfter(c)
           /\ handler' = [handler EXCEPT
                            ![h].todo = Remaining(@, r),
                            ![h].results = @ \o Render(r),
                            ![h].done = Append(@, [cmd |-> c, kind |-> r.kind])]
    /\ UNCHANGED <<state, spells_cast, last_spell_time, chat_history,
                   casts_started, casts_ok, reply, exec_lock>>

\* line 118: Ok(results.join("\n")); the executor guard is dropped
AgentJoin(h) ==
    /\ handler[h].pc = "c_exec"
    /\ handler[h].todo = <<>>
    /\ handler' = [handler EXCEPT ![h].pc = "c_ok",
                                  ![h].final = Some(Join(handler[h].results))]
    /\ exec_lock' = 0
    /\ UNCHANGED <<state, spells_cast, last_spell_time, chat_history,
                   casts_started, casts_ok, reply, memory, files>>

\* a variant that logs what it returns
CastOk_logs_report(h, now) ==
    /\ handler[h].pc = "c_ok"
    /\ state' = "idle"
    /\ spells_cast' = spells_cast + 1
    /\ last_spell_time' = Some(now)
    /\ chat_history' = Trim(PushTurn(chat_history, ApprenticeName,
                                     handler[h].incantation, Unwrap(handler[h].final)))
    /\ reply' = [rpc |-> "cast_spell", result |-> Unwrap(handler[h].final),
                 success |-> TRUE, error |-> <<>>]
    /\ casts_ok' = casts_ok + 1
    /\ handler' = [handler EXCEPT ![h] = IdleHandler]
    /\ UNCHANGED casts_started

\* lines 173-198: record the turn and answer with success
CastOk(h, now) ==
    /\ handler[h].pc = "c_ok"
    /\ state' = "idle"
    /\ spells_cast' = spells_cast + 1
    /\ last_spell_time' = Some(now)
    /\ chat_history' = Trim(PushTurn(chat_history, ApprenticeName,
                                     handler[h].incantation, Unwrap(handler[h].response)))
    /\ reply' = [rpc |-> "cast_spell", result |-> Unwrap(handler[h].final),
                 success |-> TRUE, error |-> <<>>]
    /\ casts_ok' = casts_ok + 1
    /\ handler' = [handler EXCEPT ![h] = IdleHandler]
    /\ UNCHANGED casts_started

\* the chat history after the Err arm
ErrHistory_logs_request(h) ==
    Append(chat_history, [speaker |-> "Sorcerer", text |-> handler[h].incantation])

ErrHistory(h) == chat_history

\* a variant that counts a failed cast as well
CastErr_counts(h) ==
    /\ handler[h].pc = "c_err"
    /\ state' = "error"
    /\ spells_cast' = spells_cast + 1
    /\ chat_history' = ErrHistory(h)
    /\ reply' = [rpc |-> "cast_spell", result |-> <<>>, success |-> FALSE,
                 error |-> <<"llm", "error">>]
    /\ handler' = [handler EXCEPT ![h] = IdleHandler]
    /\ UNCHANGED <<last_spell_time, casts_started, casts_ok>>

\* lines 200-211: the LLM call failed
CastErr(h) ==
    /\ handler[h].pc = "c_err"
    /\ state' = "error"
    /\ chat_history' = ErrHistory(h)
    /\ reply' = [rpc |-> "cast_spell", result |-> <<>>, success |-> FALSE,
                 error |-> <<"llm", "error">>]
    /\ handler' = [handler EXCEPT ![h] = IdleHandler]
    /\ UNCHANGED <<spells_cast, last_spell_time, casts_started, casts_ok>>

\* a variant that resets the state when it reports it
GetStatus_resets_state ==
    /\ reply' = [rpc |-> "get_status", apprentice_name |-> ApprenticeName,
                 state |-> state,
                 last_spell_time |-> IF last_spell_time = None THEN 0
                                     ELSE Unwrap(last_spell_time)]
    /\ state' = "idle"
    /\ UNCHANGED <<spells_cast, last_spell_time, chat_history, handler,
                   casts_started, casts_ok>>

\* lines 217-228
GetStatus ==
    /\ reply' = [rpc |-> "get_status", apprentice_name |-> ApprenticeName,
                 state |-> state,
                 last_spell_time |-> IF last_spell_time = None THEN 0
                                     ELSE Unwrap(last_spell_time)]
    /\ UNCHANGED <<state, spells_cast, last_spell_time, chat_history, handler,
                   casts_started, casts_ok>>

\* lines 230-250
GetChatHistory(lines) ==
    /\ reply' = [rpc |-> "get_chat_history", lines |-> lines,
                 history |-> LastLines(chat_history, lines)]
    /\ UNCHANGED <<state, spells_cast, last_spell_time, chat_history, handler,
                   casts_started, casts_ok>>

NextWorker ==
    \/ (\E h \in Handlers, inc \in Incantations :
            CastBegin(h, inc, MaxCasts) /\ UNCHANGED workerRest)
    \/ (\E h \in Handlers : CastRead(h) /\ UNCHANGED workerRest)
    \/ (\E h \in Handlers, ok \in BOOLEAN : CastLlm(h, ok) /\ UNCHANGED workerRest)
    \/ (\E h \in Handlers, now \in Times : CastOk(h, now) /\ UNCHANGED workerRest)
    \/ (\E h \in Handlers : CastErr(h) /\ UNCHANGED workerRest)
    \/ (GetStatus /\ UNCHANGED workerRest)
    \/ (\E n \in HistoryLines : GetChatHistory(n) /\ UNCHANGED workerRest)

\* a long run, enough casts to fill the history; one incantation, one clock value
LogHandlers == {1, 2}

NextLog ==
    \/ (\E h \in LogHandlers : CastBegin(h, <<"x">>, MaxCastsLog) /\ UNCHANGED workerRest)
    \/ (\E h \in LogHandlers : CastRead(h) /\ UNCHANGED workerRest)
    \/ (\E h \in LogHandlers, ok \in BOOLEAN : CastLlm(h, ok) /\ UNCHANGED workerRest)
    \/ (\E h \in LogHandlers : CastOk(h, 1) /\ UNCHANGED workerRest)
    \/ (\E h \in LogHandlers : CastErr(h) /\ UNCHANGED workerRest)

\* no orchestrator in the worker specifications
OrchOff ==
    /\ phase = "failed"
    /\ pending = {}
    /\ apprentices = <<>>
    /\ next_port = DefaultStartingPort
    /\ containers = <<>>
    /\ api_key_set = FALSE
    /\ reg_lock = 0
    /\ port_lock = 0
    /\ task = [t \in Tasks |-> IdleTask]
    /\ hist = <<NoOp, NoOp>>
    /\ allocated = <<>>
    /\ observed = {}
    /\ ops_started = 0

\* AGENT_MODE unset (lines 39-42: false): the command engine is never used
AgentOff ==
    /\ agent_mode = FALSE
    /\ memory = <<>>
    /\ files = <<>>
    /\ exec_lock = 0

NoCli == [kind |-> "none", names |-> <<>>, done |-> FALSE, all |-> FALSE,
          given |-> <<>>]

\* no command line in the specifications of single calls
CliOff ==
    /\ cli = NoCli
    /\ results = <<>>
    /\ summary = None

\* the apprentice process right after ApprenticeServer::new
InitApprentice == InitWorker /\ OrchOff /\ AgentOff /\ CliOff

SpecWorker == InitApprentice /\ [][NextWorker]_vars

SpecLog == InitApprentice /\ [][NextLog]_vars

\* ApprenticeServer::new with AGENT_MODE set or not, CommandExecutor::new
InitAgent ==
    /\ agent_mode \in BOOLEAN
    /\ memory = <<>>
    /\ files \in {<<>>, ("p1" :> "b")}
    /\ exec_lock = 0

AgentIncantations == {<<"files">>, <<"notes">>, <<"nothing">>, <<"fly">>, <<"x">>}

\* two requests at a time reach the command engine
AgentHandlers == {1, 2}

NextAgent ==
    \/ (\E h \in AgentHandlers, inc \in AgentIncantations :
            CastBegin(h, inc, MaxAgentCasts) /\ UNCHANGED workerRest)
    \/ (\E h \in AgentHandlers : CastRead(h) /\ UNCHANGED workerRest)
    \/ (\E h \in AgentHandlers, ok \in BOOLEAN : CastLlm(h, ok) /\ UNCHANGED workerRest)
    \/ (\E h \in AgentHandlers : AgentParse(h) /\ UNCHANGED agentRest)
    \/ (\E h \in AgentHandlers : AgentLock(h) /\ UNCHANGED agentRest)
    \/ (\E h \in AgentHandlers : AgentExec(h) /\ UNCHANGED agentRest)
    \/ (\E h \in AgentHandlers : AgentJoin(h) /\ UNCHANGED agentRest)
    \/ (\E h \in AgentHandlers : CastOk(h, 1) /\ UNCHANGED workerRest)
    \/ (\E h \in AgentHandlers : CastErr(h) /\ UNCHANGED workerRest)
    \/ (GetStatus /\ UNCHANGED workerRest)
    \/ (\E n \in {0, 1} : GetChatHistory(n) /\ UNCHANGED workerRest)

\* the apprentice process with the command engine
InitAutonomous == InitWorker /\ InitAgent /\ OrchOff /\ CliOff

SpecAgent == InitAutonomous /\ [][NextAgent]_vars

----------------------------------------------------------------------------

NextOrch ==
    \/ (DiscoverListFails /\ UNCHANGED orchRest)
    \/ (\E n \in ExistingNames, i, c, w \in BOOLEAN :
            DiscoverOne(n, i, c, w) /\ UNCHANGED orchRest)
    \/ (DiscoverDone /\ UNCHANGED orchRest)
    \/ (\E t \in Tasks, n \in Names : SummonBegin(t, n) /\ UNCHANGED orchRest)
    \/ (\E t \in Tasks, w \in BOOLEAN : SummonLocked(t, w) /\ UNCHANGED orchRest)
    \/ (\E t \in Tasks, ok \in BOOLEAN : SummonCreate(t, ok) /\ UNCHANGED orchRest)
    \/ (\E t \in Tasks, ok \in BOOLEAN : SummonStart(t, ok) /\ UNCHANGED orchRest)
    \/ (\E t \in Tasks, ok \in BOOLEAN : SummonConnect(t, ok) /\ UNCHANGED orchRest)
    \/ (\E t \in Tasks, n \in Names : BanishBegin(t, n) /\ UNCHANGED orchRest)
    \/ (\E t \in Tasks : BanishLocked(t) /\ UNCHANGED orchRest)
    \/ (\E t \in Tasks, ok \in BOOLEAN : BanishRpc(t, ok) /\ UNCHANGED orchRest)
    \/ (\E t \in Tasks, ok \in BOOLEAN : BanishStop(t, ok) /\ UNCHANGED orchRest)
    \/ (\E t \in Tasks, ok \in BOOLEAN : BanishRemove(t, ok) /\ UNCHANGED orchRest)

\* the sorcerer process when Sorcerer::new starts discovery
InitSorcerer == InitOrch /\ InitWorker /\ AgentOff /\ CliOff

SpecOrch == InitSorcerer /\ [][NextOrch]_vars

----------------------------------------------------------------------------
\* The command line (src/src/main.rs): one process runs Sorcerer::new and then
\* one command: summon NAMES, rm NAMES or ps.

\* one task per name of a batch; ps runs in task 1
CliTasks == 1..MaxBatch

\* the names given on the command line
RECURSIVE SeqsUpTo(_, _)
SeqsUpTo(S, n) ==
    IF n = 0 THEN {<<>>}
    ELSE LET shorter == SeqsUpTo(S, n - 1)
         IN  shorter \cup {Append(q, x) : q \in {r \in shorter : Len(r) = n - 1}, x \in S}

NameLists == SeqsUpTo(Names, MaxBatch) \ {<<>>}

\* the containers named apprentice-* that the runtime may hold at start
FleetNames == ValidNames

FleetContainers ==
    [env_port : {Some(DefaultStartingPort)}, state : {"running", "exited"}]

\* Sorcerer::new, with up to two apprentice containers left by earlier runs
InitFleet ==
    /\ phase = "discover"
    /\ \E S \in SUBSET FleetNames : containers \in [S -> FleetContainers]
    /\ pending = DOMAIN containers
    /\ apprentices = <<>>
    /\ next_port \in StartPorts
    /\ api_key_set \in BOOLEAN
    /\ reg_lock = 0
    /\ port_lock = 0
    /\ task = [t \in CliTasks |-> IdleTask]
    /\ hist = <<NoOp, NoOp>>
    /\ allocated = <<>>
    /\ observed = {}
    /\ ops_started = 0
    /\ cli = NoCli
    /\ results = <<>>
    /\ summary = None

\* the orders in which the iterator of the HashMap may yield a set of names
Orders(S) ==
    {q \in [1..Cardinality(S) -> S] :
        \A i, j \in 1..Cardinality(S) : i # j => q[i] # q[j]}

\* a variant that lists every record of the registry
list_apprentices_all == DOMAIN apprentices

\* lines 301-305: the names of the records whose client is Some
list_apprentices == {n \in DOMAIN apprentices : apprentices[n].client}

\* the names typed after rm --all
GivenWithAll == {<<>>, <<<<"b", "-", "7">>, <<"a", " ">>>>}

\* a variant in which the names typed are removed as well
apprentices_to_remove_with_names(all, names, listed) ==
    IF all THEN listed \o names ELSE names

\* main.rs lines 151-165: with --all the names are those list_apprentices
\* returned, otherwise the names typed
apprentices_to_remove(all, names, listed) ==
    IF all THEN listed ELSE names

\* main.rs lines 150-186: rm --all; with nothing listed the command returns
\* at once, otherwise one future per listed name
CliRmAll(given, listed) ==
    /\ phase = "ready"
    /\ cli.kind = "none"
    /\ listed \in Orders(list_apprentices)
    /\ LET names == apprentices_to_remove(TRUE, given, listed)
       IN  /\ cli' = [kind |-> "rm", names |-> names, done |-> (listed = <<>>),
                      all |-> TRUE, given |-> given]
           /\ task' = [t \in CliTasks |->
                         IF listed # <<>> /\ t <= Len(names)
                           THEN [IdleTask EXCEPT !.pc = "b_wait", !.kind = "banish",
                                                 !.name = names[t]]
                           ELSE IdleTask]
           /\ results' = IF listed = <<>> THEN <<>>
                                          ELSE [i \in 1..Len(names) |-> "pending"]
    /\ UNCHANGED <<phase, pending, apprentices, next_port, containers, api_key_set,
                   reg_lock, hist, allocated, observed, ops_started, summary>>

\* lines 91-102: one future per name, each calling summon_apprentice; a name
\* that is not valid is refused at once (sorcerer.rs lines 194-198)
CliSummon(names) ==
    /\ phase = "ready"
    /\ cli.kind = "none"
    /\ cli' = [kind |-> "summon", names |-> names, done |-> FALSE, all |-> FALSE,
               given |-> names]
    /\ task' = [t \in CliTasks |->
                  IF t <= Len(names) /\ is_valid_apprentice_name(names[t])
                    THEN [IdleTask EXCEPT !.pc = "s_wait", !.kind = "summon",
                                          !.name = names[t]]
                    ELSE IdleTask]
    /\ results' = [i \in 1..Len(names) |->
                     IF is_valid_apprentice_name(names[i]) THEN "pending"
                                                           ELSE "InvalidName"]
    /\ UNCHANGED <<phase, pending, apprentices, next_port, containers, api_key_set,
                   reg_lock, hist, allocated, observed, ops_started, summary>>

\* lines 176-186: one future per name, each calling the removal
CliRm(names) ==
    /\ phase = "ready"
    /\ cli.kind = "none"
    /\ cli' = [kind |-> "rm", names |-> names, done |-> FALSE, all |-> FALSE,
               given |-> names]
    /\ task' = [t \in CliTasks |->
                  IF t <= Len(names)
                    THEN [IdleTask EXCEPT !.pc = "b_wait", !.kind = "banish",
                                          !.name = names[t]]
                    ELSE IdleTask]
    /\ results' = [i \in 1..Len(names) |-> "pending"]
    /\ UNCHANGED <<phase, pending, apprentices, next_port, containers, api_key_set,
                   reg_lock, hist, allocated, observed, ops_started, summary>>

\* a variant in which the first error cancels the futures still pending
Collect_fail_fast(t) ==
    /\ results' = IF task'[t].pc = "idle"
                    THEN [i \in DOMAIN results |->
                            IF i = t THEN hist'[2].result
                            ELSE IF hist'[2].result # "Ok" /\ results[i] = "pending"
                              THEN "Cancelled" ELSE results[i]]
                    ELSE results
    /\ UNCHANGED <<cli, summary>>

\* lines 98-99, 182-183: (name_clone, result) once the call has returned
Collect(t) ==
    /\ results' = IF task'[t].pc = "idle" THEN [results EXCEPT ![t] = hist'[2].result]
                                          ELSE results
    /\ UNCHANGED <<cli, summary>>

\* successes += 1 for every Ok(_)
RECURSIVE Successes(_)
Successes(rs) ==
    IF rs = <<>> THEN 0
    ELSE (IF Head(rs) = "Ok" THEN 1 ELSE 0) + Successes(Tail(rs))

\* a variant that prints the summary line for a single name as well
CliSummary_always ==
    /\ cli.kind \in {"summon", "rm"}
    /\ ~cli.done
    /\ \A i \in DOMAIN results : results[i] # "pending"
    /\ cli' = [cli EXCEPT !.done = TRUE]
    /\ summary' = Some(<<Successes(results), Len(cli.names)>>)
    /\ UNCHANGED <<orchVars, results>>

\* a variant that prints what it has as soon as one call has returned
CliSummary_eager ==
    /\ cli.kind \in {"summon", "rm"}
    /\ ~cli.done
    /\ \E i \in DOMAIN results : results[i] # "pending"
    /\ cli' = [cli EXCEPT !.done = TRUE]
    /\ summary' = IF Len(cli.names) > 1
                    THEN Some(<<Successes(results), Len(cli.names)>>)
                    ELSE None
    /\ UNCHANGED <<orchVars, results>>

\* lines 104-123, 188-206: join_all has returned every pair; the summary line
\* is printed when more than one name was given
CliSummary ==
    /\ cli.kind \in {"summon", "rm"}
    /\ ~cli.done
    /\ \A i \in DOMAIN results : results[i] # "pending"
    /\ cli' = [cli EXCEPT !.done = TRUE]
    /\ summary' = IF Len(cli.names) > 1
                    THEN Some(<<Successes(results), Len(cli.names)>>)
                    ELSE None
    /\ UNCHANGED <<orchVars, results>>

\* the workers get_all_status talks to: the records that have a client
Connected == {n \in DOMAIN apprentices : apprentices[n].client}

\* line 210: sorcerer.get_all_status()
CliPs ==
    /\ phase = "ready"
    /\ cli.kind = "none"
    /\ cli' = [kind |-> "ps", names |-> <<>>, done |-> FALSE, all |-> FALSE,
               given |-> <<>>]
    /\ task' = [task EXCEPT ![1] = [IdleTask EXCEPT !.pc = "st_wait", !.kind = "status"]]
    /\ UNCHANGED <<phase, pending, apprentices, next_port, containers, api_key_set,
                   reg_lock, hist, allocated, observed, ops_started, results, summary>>

\* sorcerer.rs lines 347-348: lock the registry for the whole loop
StatusLocked(t) ==
    /\ task[t].pc = "st_wait"
    /\ reg_lock = 0
    /\ reg_lock' = t
    /\ task' = [task EXCEPT ![t].pc = "st_rpc"]
    /\ results' = [n \in Connected |-> "pending"]
    /\ UNCHANGED <<phase, pending, apprentices, next_port, containers, api_key_set,
                   hist, allocated, observed, ops_started, cli, summary>>

\* a variant that returns the error of the first get_status that fails
StatusRpc_propagates(t, n, ok) ==
    /\ task[t].pc = "st_rpc"
    /\ n \in DOMAIN results
    /\ results[n] = "pending"
    /\ results' = [results EXCEPT ![n] = IF ok THEN "Ok" ELSE "RpcCallFailed"]
    /\ IF ok
         THEN /\ task' = [task EXCEPT ![t].name = n,
                                      ![t].calls = Append(@, <<"get_status", ok>>)]
              /\ UNCHANGED <<reg_lock, hist, cli>>
         ELSE /\ Finish(t, "RpcCallFailed", "get_status", FALSE)
              /\ cli' = [cli EXCEPT !.done = TRUE]
    /\ UNCHANGED <<phase, pending, apprentices, next_port, containers, api_key_set,
                   allocated, observed, ops_started, summary>>

\* sorcerer.rs lines 350-363: one iteration, client.get_status(...).await;
\* an error is only logged
StatusRpc(t, n, ok) ==
    /\ task[t].pc = "st_rpc"
    /\ n \in DOMAIN results
    /\ results[n] = "pending"
    /\ results' = [results EXCEPT ![n] = IF ok THEN "Ok" ELSE "RpcCallFailed"]
    /\ task' = [task EXCEPT ![t].name = n, ![t].calls = Append(@, <<"get_status", ok>>)]
    /\ UNCHANGED <<phase, pending, apprentices, next_port, containers, api_key_set,
                   reg_lock, hist, allocated, observed, ops_started, cli, summary>>

\* sorcerer.rs line 366: Ok(results); the statuses are printed
StatusDone(t) ==
    /\ task[t].pc = "st_rpc"
    /\ \A n \in DOMAIN results : results[n] # "pending"
    /\ Finish(t, "Ok", "", TRUE)
    /\ cli' = [cli EXCEPT !.done = TRUE]
    /\ UNCHANGED <<phase, pending, apprentices, next_port, containers, api_key_set,
                   allocated, observed, ops_started, results, summary>>

\* the worker never answers: ApprenticeClient::connect (line 257), client.banish
\* (line 316) or client.get_status (line 352) stays pending, no timeout is set,
\* and the call keeps the registry guard it holds
RpcHangs(t, n) ==
    /\ \/ task[t].pc \in {"s_connect", "b_rpc"} /\ n = task[t].name
       \/ task[t].pc = "st_rpc" /\ n \in DOMAIN results /\ results[n] = "pending"
    /\ task' = [task EXCEPT ![t].pc = "hung", ![t].name = n]
    /\ UNCHANGED <<phase, pending, apprentices, next_port, containers, api_key_set,
                   reg_lock, hist, allocated, observed, ops_started, cliVars>>

\* join_all polls the futures in the order of the names and the registry
\* mutex serves its waiters first-in first-out: the calls of a batch take the
\* registry in the order of the names
Turn(t) == \A u \in CliTasks : u < t => task[u].pc \notin {"s_wait", "b_wait"}

cliRest == <<workerVars, agentVars, procVars, lockVars>>

NextCli ==
    \/ (DiscoverListFails /\ UNCHANGED <<cliRest, cliVars>>)
    \/ (\E n \in FleetNames, i, c, w \in BOOLEAN :
            DiscoverOne(n, i, c, w) /\ UNCHANGED <<cliRest, cliVars>>)
    \/ (DiscoverDone /\ UNCHANGED <<cliRest, cliVars>>)
    \/ (cli.kind = "none" /\ \E names \in NameLists :
            CliSummon(names) /\ UNCHANGED cliRest)
    \/ (cli.kind = "none" /\ \E names \in NameLists :
            CliRm(names) /\ UNCHANGED cliRest)
    \/ (cli.kind = "none" /\ \E given \in GivenWithAll :
            \E listed \in Orders(list_apprentices) :
               CliRmAll(given, listed) /\ UNCHANGED cliRest)
    \/ (CliPs /\ UNCHANGED cliRest)
    \/ (\E t \in CliTasks, w \in BOOLEAN :
            Turn(t) /\ SummonLocked(t, w) /\ Collect(t) /\ UNCHANGED cliRest)
    \/ (\E t \in CliTasks, ok \in BOOLEAN :
            SummonCreate(t, ok) /\ Collect(t) /\ UNCHANGED cliRest)
    \/ (\E t \in CliTasks, ok \in BOOLEAN :
            SummonStart(t, ok) /\ Collect(t) /\ UNCHANGED cliRest)
    \/ (\E t \in CliTasks, ok \in BOOLEAN :
            SummonConnect(t, ok) /\ Collect(t) /\ UNCHANGED cliRest)
    \/ (\E t \in CliTasks : Turn(t) /\ BanishLocked(t) /\ Collect(t) /\ UNCHANGED cliRest)
    \/ (\E t \in CliTasks, ok \in BOOLEAN :
            BanishRpc(t, ok) /\ Collect(t) /\ UNCHANGED cliRest)
    \/ (\E t \in CliTasks, ok \in BOOLEAN :
            BanishStop(t, ok) /\ Collect(t) /\ UNCHANGED cliRest)
    \/ (\E t \in CliTasks, ok \in BOOLEAN :
            BanishRemove(t, ok) /\ Collect(t) /\ UNCHANGED cliRest)
    \/ (\E t \in CliTasks : StatusLocked(t) /\ UNCHANGED cliRest)
    \/ (\E t \in CliTasks, n \in FleetNames, ok \in BOOLEAN :
            StatusRpc(t, n, ok) /\ UNCHANGED cliRest)
    \/ (\E t \in CliTasks : StatusDone(t) /\ UNCHANGED cliRest)
    \/ (\E t \in CliTasks, n \in FleetNames : RpcHangs(t, n) /\ UNCHANGED cliRest)
    \/ (CliSummary /\ UNCHANGED cliRest)

\* the sorcerer process from Sorcerer::new to the end of its command
InitCli == InitFleet /\ InitWorker /\ AgentOff

SpecCli == InitCli /\ [][NextCli]_vars

----------------------------------------------------------------------------
\* Properties of the orchestrator

Valid(h) == is_valid_apprentice_name(h.name)

\* C1 (as stated): for every valid name, create(name) followed immediately by
\* create(name) yields AlreadyExists on the second call.
C1_SecondCreateAlreadyExists ==
    (/\ hist[1].kind = "summon" /\ hist[2].kind = "summon"
     /\ hist[1].name = hist[2].name /\ Valid(hist[2]))
    => hist[2].result = "AlreadyExists"

\* C1 (amended): for every valid name, a create(name) that succeeds followed
\* immediately by create(name) yields AlreadyExists on the second call.
C1_SecondCreateAfterSuccess ==
    (/\ hist[1].kind = "summon" /\ hist[2].kind = "summon"
     /\ hist[1].name = hist[2].name /\ Valid(hist[2])
     /\ hist[1].result = "Ok")
    => hist[2].result = "AlreadyExists"

C1_Witness ==
    /\ hist[1].kind = "summon" /\ hist[1].result = "Ok"
    /\ hist[2].kind = "summon" /\ hist[2].name = hist[1].name
    /\ hist[2].result = "AlreadyExists"

\* C2: remove(name) on a registered name leaves the name absent from the
\* registry, from the moment the record is taken until after the call has
\* returned, whatever the outcomes of the terminate RPC, of the container stop
\* and of the container remove.
C2_RemovedNameAbsent ==
    /\ \A t \in Tasks :
         (task[t].kind = "banish" /\ task[t].rec # None)
         => task[t].name \notin DOMAIN apprentices
    /\ (hist[2].kind = "banish" /\ hist[2].result # "NotFound")
         => hist[2].name \notin DOMAIN apprentices

C2_Witness ==
    /\ hist[2].kind = "banish"
    /\ hist[2].result = "ContainerRemoveFailed"
    /\ hist[2].calls = << <<"banish", FALSE>>, <<"stop", FALSE>>, <<"remove", FALSE>> >>
    /\ hist[2].name \notin DOMAIN apprentices
    /\ hist[2].name \in DOMAIN containers

\* C3: remove(name) on a name that is not registered returns NotFound, leaves
\* the registry and the containers unchanged and issues no terminate, stop or
\* remove call.
C3_RemoveAbsentNotFound ==
    [][\A t \in Tasks :
         (/\ task[t].pc = "b_wait" /\ task'[t].pc # "b_wait"
          /\ task[t].name \notin DOMAIN apprentices)
         => (/\ task'[t].pc = "idle"
             /\ hist'[2].kind = "banish" /\ hist'[2].name = task[t].name
             /\ hist'[2].result = "NotFound"
             /\ hist'[2].calls = <<>>
             /\ apprentices' = apprentices
             /\ containers' = containers)]_vars

C3_Witness ==
    /\ hist[2].kind = "banish" /\ hist[2].result = "NotFound"
    /\ hist[2].calls = <<>>
    /\ DOMAIN apprentices # {}
    /\ hist[2].name \in DOMAIN containers

\* C4: for every starting value of next_port, the ports returned by successive
\* allocations are strictly increasing (hence pairwise distinct).
C4_PortsStrictlyIncreasing ==
    \A i, j \in 1..Len(allocated) : i < j => allocated[i] < allocated[j]

\* C5: observe(p) followed by allocate() never returns a value <= p.
C5_AllocateAboveObserved ==
    \A p \in observed : \A i \in 1..Len(allocated) : allocated[i] > p

----------------------------------------------------------------------------
\* Properties of the apprentice server

Min(a, b) == IF a < b THEN a ELSE b

\* C6: after N successful casts the chat history has min(2N, 100) entries, it
\* never has more than 100, and a change of the history appends one turn and
\* drops a whole number of the oldest turns.
C6_BoundedHistory ==
    /\ [](Len(chat_history) = Min(2 * casts_ok, HistoryCap))
    /\ [][chat_history' # chat_history =>
            LET n == Len(chat_history')
                full == chat_history \o SubSeq(chat_history', n - 1, n)
            IN  /\ n >= 2
                /\ n <= HistoryCap
                /\ \E k \in 0..Len(full) :
                      /\ k % 2 = 0
                      /\ chat_history' = SubSeq(full, k + 1, Len(full))]_vars

C6_Witness ==
    /\ casts_ok > HistoryCap \div 2
    /\ Len(chat_history) = HistoryCap
    /\ \E h \in LogHandlers : handler[h].pc = "c_ok"

\* a log made of whole turns: no request line without the response to it
WholeTurns(log) ==
    /\ Len(log) % 2 = 0
    /\ \A i \in 1..Len(log) :
         i % 2 = 1 => /\ log[i].speaker = "Sorcerer"
                      /\ log[i + 1].speaker = ApprenticeName
                      /\ log[i + 1].text = Response(log[i].text)

\* C7: under any interleaving of cast_spell, get_status and get_chat_history
\* handlers the chat history, and every history returned by get_chat_history,
\* is never torn: the whole log is a sequence of (request, response) turns and
\* no returned request line lacks the response that follows it.
C7_HistoryNeverTorn ==
    /\ WholeTurns(chat_history)
    /\ reply.rpc = "get_chat_history" =>
         /\ reply.lines = 0 => WholeTurns(reply.history)
         /\ \A i \in 1..Len(reply.history) :
              reply.history[i].speaker = "Sorcerer" =>
                 /\ i < Len(reply.history)
                 /\ reply.history[i + 1].speaker = ApprenticeName
                 /\ reply.history[i + 1].text = Response(reply.history[i].text)

C7_Witness ==
    /\ reply.rpc = "get_chat_history" /\ reply.lines = 0
    /\ Len(reply.history) = 4
    /\ reply.history[1].text # reply.history[3].text
    /\ \E h \in Handlers : handler[h].pc = "c_ok"

InFlight == {h \in Handlers : handler[h].pc # "idle"}

\* C8: two cast_spell calls on one apprentice never interleave: while one call
\* is between its first step and its completion no other call has started to
\* touch the state, read the history or call the LLM.
C8_InvokesNeverInterleave == Cardinality(InFlight) <= 1

\* C9: the state is idle, casting or error and changes only idle -> casting,
\* error -> casting, casting -> idle (success) and casting -> error (failure).
C9_LifecycleTransitions ==
    /\ [](state \in {"idle", "casting", "error"})
    /\ [][state' # state =>
            <<state, state'>> \in {<<"idle", "casting">>, <<"error", "casting">>,
                                   <<"casting", "idle">>, <<"casting", "error">>}]_vars

\* C10: a cast_spell whose LLM call fails ends in state error with the reply
\* {success: false, error, result empty}; the chat history, spells_cast and
\* last_spell_time are changed by no step other than the completion of a
\* successful cast_spell, so the failing call leaves them as they were.
C10_FailedInvokeChangesNothing ==
    [][/\ \A h \in Handlers :
            (handler[h].pc = "c_err" /\ handler'[h].pc = "idle") =>
               /\ state' = "error"
               /\ reply'.rpc = "cast_spell"
               /\ reply'.success = FALSE /\ reply'.result = <<>> /\ reply'.error # <<>>
               /\ chat_history' = chat_history
               /\ spells_cast' = spells_cast
               /\ last_spell_time' = last_spell_time
       /\ (\/ chat_history' # chat_history
           \/ spells_cast' # spells_cast
           \/ last_spell_time' # last_spell_time)
          => \E h \in Handlers : handler[h].pc = "c_ok" /\ handler'[h].pc = "idle"]_vars

C10_Witness ==
    /\ reply.rpc = "cast_spell" /\ reply.success = FALSE
    /\ state = "error"
    /\ Len(chat_history) = 2 /\ spells_cast = 1 /\ last_spell_time # None

----------------------------------------------------------------------------
\* Properties of the command engine

\* the commands an LLM response spells out, read off the response word by word
BatchOf(response) ==
    [i \in 1..(Len(response) - 2) |-> CommandJson[response[i + 1]]]

\* the incantations answered with a well-formed command batch
BatchIncantations == {<<"files">>, <<"notes">>, <<"nothing">>}

\* the check marks and crosses of a report, in order
Marks(report) == SelectSeq(report, LAMBDA w : w \in {"+", "x"})

\* the marks the outcomes of the executed commands call for, in order
RECURSIVE OutcomeMarks(_)
OutcomeMarks(done) ==
    IF done = <<>> THEN <<>>
    ELSE (IF done[1].kind = "Success" THEN <<"+">>
          ELSE IF done[1].kind = "Error" THEN <<"x">> ELSE <<>>)
         \o OutcomeMarks(Tail(done))

\* C11: for every parsed command batch every command is executed exactly once
\* and strictly in batch order (the commands executed so far followed by the
\* commands still to run are the batch), a failing command does not stop or
\* skip a later one (when the loop ends every command has run), and the report
\* carries the outcomes in batch order; the batch [Write ok, Delete fails,
\* Write ok] is reported as check mark, cross, check mark.
C11_BatchRunsInOrder ==
    \A h \in Handlers :
       (/\ agent_mode
        /\ handler[h].incantation \in BatchIncantations
        /\ handler[h].pc \in {"c_exec", "c_ok"})
       => LET batch == BatchOf(Response(handler[h].incantation))
              ran == [i \in 1..Len(handler[h].done) |-> handler[h].done[i].cmd]
          IN  /\ ran \o handler[h].todo = batch
              /\ handler[h].pc = "c_ok" =>
                   /\ ran = batch
                   /\ Marks(Unwrap(handler[h].final)) = OutcomeMarks(handler[h].done)
                   /\ handler[h].incantation = <<"files">> =>
                        Marks(Unwrap(handler[h].final)) = <<"+", "x", "+">>

C11_Witness ==
    \E h \in Handlers :
       /\ agent_mode
       /\ handler[h].pc = "c_ok"
       /\ handler[h].incantation = <<"files">>
       /\ Len(handler[h].done) = 3
       /\ handler[h].done[2].kind = "Error"
       /\ handler[h].done[3].kind = "Success"
       /\ "p2" \in DOMAIN files

\* the responses of the model that are not a command batch: plain prose and a
\* batch naming a command that does not exist
NotABatch == {Response(<<"x">>), Response(<<"fly">>)}

\* C12: with agent mode on, an LLM response that does not parse as a command
\* batch is returned verbatim as the result with success = true, no command
\* is executed (the files and the executor memory are left alone by the parse
\* step and nothing is recorded as run), and the turn is appended to the chat
\* history.
C12_ProseReturnedVerbatim ==
    /\ [](\A h \in Handlers :
            (/\ agent_mode
             /\ handler[h].pc = "c_ok"
             /\ Unwrap(handler[h].response) \in NotABatch)
            => /\ handler[h].final = handler[h].response
               /\ handler[h].done = <<>>)
    /\ [][\A h \in Handlers :
            (/\ agent_mode
             /\ handler[h].pc \in {"c_agent", "c_ok"}
             /\ handler'[h].pc # handler[h].pc
             /\ Unwrap(handler[h].response) \in NotABatch)
            => /\ memory' = memory
               /\ files' = files
               /\ exec_lock' = exec_lock
               /\ handler[h].pc = "c_agent" => handler'[h].pc = "c_ok"
               /\ handler[h].pc = "c_ok" =>
                    LET n == Len(chat_history')
                    IN  /\ reply'.rpc = "cast_spell"
                        /\ reply'.success = TRUE
                        /\ reply'.result = Unwrap(handler[h].response)
                        /\ n >= 2
                        /\ chat_history'[n - 1].text = handler[h].incantation
                        /\ chat_history'[n].text = Unwrap(handler[h].response)]_vars

C12_Witness ==
    /\ agent_mode
    /\ reply.rpc = "cast_spell" /\ reply.success = TRUE
    /\ reply.result = Response(<<"fly">>)
    /\ Len(chat_history) >= 2
    /\ chat_history[Len(chat_history)].text = Response(<<"fly">>)
    /\ memory # <<>>

\* C15: get_chat_history(n) on a history of length L returns the last
\* min(n, L) lines in history order when n > 0 and the whole history when
\* n = 0; for n greater than L it returns the whole history.
C15_LastLinesOfHistory ==
    [][(reply' # reply /\ reply'.rpc = "get_chat_history")
       => LET n == reply'.lines
              L == Len(chat_history)
              k == Min(n, L)
          IN  /\ n = 0 => reply'.history = chat_history
              /\ n > 0 => reply'.history = [i \in 1..k |-> chat_history[L - k + i]]
              /\ n > L => reply'.history = chat_history]_vars

C15_Witness ==
    /\ reply.rpc = "get_chat_history"
    /\ reply.lines = 3
    /\ Len(chat_history) = 6
    /\ reply.history = SubSeq(chat_history, 4, 6)
    /\ reply.history[1] # chat_history[1]

\* C16: get_status and get_chat_history are pure reads: in every state and for
\* every argument they leave the state, spells_cast, last_spell_time, the chat
\* history, the executor memory (and the files, the lock and the calls in
\* flight) unchanged.
C16_ReadsChangeNothing ==
    [][(reply' # reply /\ reply'.rpc \in {"get_status", "get_chat_history"})
       => /\ state' = state
          /\ spells_cast' = spells_cast
          /\ last_spell_time' = last_spell_time
          /\ chat_history' = chat_history
          /\ memory' = memory
          /\ files' = files
          /\ exec_lock' = exec_lock
          /\ handler' = handler]_vars

C16_Witness ==
    /\ reply.rpc = "get_status"
    /\ reply.state = "casting"
    /\ state = "casting"
    /\ memory # <<>>
    /\ chat_history # <<>>

----------------------------------------------------------------------------
\* Properties of summon_apprentice and banish_apprentice

\* C17: if the RPC connect fails after summon_apprentice has created and
\* started the container, the call returns an error, the container is left
\* running (no stop or remove is issued: the calls made are create, start and
\* the failed connect) and no record for the name is inserted.
C17_ConnectFailureLeavesContainer ==
    [][\A t \in Tasks :
         (/\ task[t].pc = "s_connect" /\ task'[t].pc = "idle"
          /\ hist'[2].result # "Ok")
         => /\ hist'[2].kind = "summon" /\ hist'[2].name = task[t].name
            /\ hist'[2].result = "RpcUnreachable"
            /\ hist'[2].calls = << <<"create", TRUE>>, <<"start", TRUE>>,
                                   <<"connect", FALSE>> >>
            /\ containers' = containers
            /\ task[t].name \in DOMAIN containers
            /\ containers[task[t].name].state = "running"
            /\ apprentices' = apprentices
            /\ task[t].name \notin DOMAIN apprentices']_vars

C17_Witness ==
    /\ hist[2].kind = "summon" /\ hist[2].result = "RpcUnreachable"
    /\ hist[2].name \in DOMAIN containers
    /\ containers[hist[2].name].state = "running"
    /\ hist[2].name \notin DOMAIN apprentices

\* the runtime and RPC calls of an orchestrator call, in the order made
CallNames(calls) == [i \in 1..Len(calls) |-> calls[i][1]]

\* C18: banish_apprentice on a registered name makes its calls in the order
\* terminate RPC (only if the record has a client), container stop, forced
\* container remove; a failing terminate or stop does not prevent the later
\* calls, and the call returns an error if and only if the remove fails.
C18_RemovePipeline ==
    /\ \A t \in Tasks :
         (task[t].kind = "banish" /\ task[t].rec # None)
         => LET first == IF Unwrap(task[t].rec).client THEN <<"banish">> ELSE <<>>
            IN  /\ task[t].pc \in {"b_rpc", "b_stop", "b_remove"}
                /\ task[t].pc = "b_rpc" =>
                     Unwrap(task[t].rec).client /\ task[t].calls = <<>>
                /\ task[t].pc = "b_stop" => CallNames(task[t].calls) = first
                /\ task[t].pc = "b_remove" =>
                     CallNames(task[t].calls) = first \o <<"stop">>
    /\ (hist[2].kind = "banish" /\ hist[2].result # "NotFound")
         => /\ CallNames(hist[2].calls) \in {<<"banish", "stop", "remove">>,
                                             <<"stop", "remove">>}
            /\ hist[2].result \in {"Ok", "ContainerRemoveFailed"}
            /\ hist[2].result = "Ok" <=> hist[2].calls[Len(hist[2].calls)][2]

C18_Witness ==
    /\ hist[2].kind = "banish" /\ hist[2].result = "Ok"
    /\ hist[2].calls = << <<"banish", FALSE>>, <<"stop", FALSE>>, <<"remove", TRUE>> >>
    /\ hist[2].name \notin DOMAIN containers

----------------------------------------------------------------------------
\* Properties of the command line and of discovery

Batch == cli.kind \in {"summon", "rm"}

\* C13: in a batch summon or rm every name has its own result; a name that
\* fails changes neither the registry nor the result or the progress of any
\* other name, a result that is Ok stays Ok and is not undone (the summoned
\* name stays registered, the removed name stays unregistered and without
\* container), and the summary is (number of Ok results)/(number of names).
C13_BatchOutcomesIndependent ==
    /\ [](Batch =>
            /\ DOMAIN results = 1..Len(cli.names)
            /\ \A i \in DOMAIN results :
                 results[i] = "Ok" =>
                    IF cli.kind = "summon"
                      THEN cli.names[i] \in DOMAIN apprentices
                      ELSE /\ cli.names[i] \notin DOMAIN apprentices
                           /\ cli.names[i] \notin DOMAIN containers
            /\ cli.done =>
                 /\ \A i \in DOMAIN results : results[i] # "pending"
                 /\ summary =
                      IF Len(cli.names) > 1
                        THEN Some(<<Cardinality({i \in DOMAIN results : results[i] = "Ok"}),
                                    Len(cli.names)>>)
                        ELSE None)
    /\ [][Batch =>
            \A t \in DOMAIN results :
               /\ results[t] = "Ok" => results'[t] = "Ok"
               /\ (results[t] = "pending" /\ results'[t] \notin {"pending", "Ok"})
                  => /\ apprentices' = apprentices
                     /\ \A u \in DOMAIN results \ {t} :
                          results'[u] = results[u] /\ task'[u] = task[u]]_vars

C13_Witness ==
    /\ cli.kind = "summon" /\ cli.done
    /\ results = <<"Ok", "AlreadyExists", "Ok">>
    /\ summary = Some(<<2, 3>>)
    /\ cli.names[1] = cli.names[2]
    /\ cli.names[3] \in DOMAIN apprentices

\* C14: a hung worker blocks only the call addressed to it.  A call that hangs
\* never returns and never gives up what it holds, so the other calls of a
\* batch complete only if none of them waits for the registry that the hung
\* call holds, and the other workers of get_all_status get their status only
\* if none is still to be asked once a worker hangs.
C14_HungWorkerBlocksOnlyItsCall ==
    \A t \in CliTasks :
       task[t].pc = "hung" =>
          /\ \A u \in CliTasks \ {t} :
               task[u].pc \in {"s_wait", "b_wait"} => reg_lock # t
          /\ task[t].kind = "status" =>
               \A n \in DOMAIN results \ {task[t].name} : results[n] # "pending"

\* C19: during discovery a client exists only for a container whose state is
\* running; a container whose connect fails is still registered, without
\* client, discovery goes on, and when it completes every listed container has
\* a record.
C19_DiscoveryToleratesConnectFailure ==
    /\ []((cli.kind = "none" /\ phase \in {"discover", "ready"}) =>
            /\ DOMAIN apprentices \cup pending = DOMAIN containers
            /\ phase = "ready" => pending = {}
            /\ \A n \in DOMAIN apprentices :
                 apprentices[n].client => containers[n].state = "running")
    /\ [][(phase = "discover" /\ pending' # pending /\ phase' # "failed") =>
            /\ phase' = "discover"
            /\ \E n \in pending :
                 /\ pending' = pending \ {n}
                 /\ n \in DOMAIN apprentices'
                 /\ DOMAIN apprentices' = DOMAIN apprentices \cup {n}]_vars

C19_Witness ==
    /\ phase = "ready" /\ cli.kind = "none"
    /\ \E n, m \in DOMAIN apprentices :
         /\ containers[n].state = "running" /\ ~apprentices[n].client
         /\ containers[m].state = "running" /\ apprentices[m].client

\* C20 (as stated): after discovery completes the registry contains no record
\* for a container that the runtime reports as not running.
C20_StoppedContainerNotRegistered ==
    (phase = "ready" /\ cli.kind = "none") =>
       \A n \in DOMAIN apprentices :
          n \in DOMAIN containers => containers[n].state = "running"

\* C20 (amended): a record is kept when discovery finds its container stopped:
\* after discovery completes the registry contains a record without client
\* for every container that the runtime reports as not running, and a summon
\* of that name is rejected as AlreadyExists.
C20_StoppedContainerKeptWithoutClient ==
    /\ (phase = "ready" /\ cli.kind = "none") =>
          \A n \in DOMAIN containers :
             containers[n].state # "running" =>
                n \in DOMAIN apprentices /\ ~apprentices[n].client
    /\ cli.kind = "summon" =>
          \A i \in DOMAIN results :
             (/\ cli.names[i] \in DOMAIN containers
              /\ containers[cli.names[i]].state = "exited")
             => results[i] \in {"pending", "AlreadyExists"}

C20_Witness ==
    /\ cli.kind = "summon"
    /\ \E i \in DOMAIN results :
         /\ results[i] = "AlreadyExists"
         /\ cli.names[i] \in DOMAIN containers
         /\ containers[cli.names[i]].state = "exited"
         /\ ~apprentices[cli.names[i]].client

\* C21 (as stated): no two registered records hold the same port, and no port
\* handed out by summon_apprentice equals the port of a record found by
\* discovery.
C21_PortsNeverCollide ==
    /\ \A n, m \in DOMAIN apprentices :
          n # m => apprentices[n].port # apprentices[m].port
    /\ \A i \in DOMAIN allocated : allocated[i] \notin observed

\* the pairs of tasks of a summon batch that were given the same valid name
SameNamePairs ==
    {p \in (DOMAIN results) \X (DOMAIN results) :
        /\ p[1] < p[2]
        /\ cli.names[p[1]] = cli.names[p[2]]
        /\ results[p[1]] # "InvalidName"}

\* the task at position i got its container created
Created(i) ==
    \/ results[i] \in {"ContainerStartFailed", "RpcUnreachable", "Ok"}
    \/ task[i].pc \in {"s_start", "s_connect", "hung"}

\* C22 (as stated): when a batch summons the same name twice, at most one of
\* the two tasks succeeds, at most one container is created for the name, and
\* the other task fails with AlreadyExists.
C22_SameNameOtherAlreadyExists ==
    cli.kind = "summon" =>
       \A p \in SameNamePairs :
          /\ ~(results[p[1]] = "Ok" /\ results[p[2]] = "Ok")
          /\ ~(Created(p[1]) /\ Created(p[2]))
          /\ (results[p[1]] # "pending" /\ results[p[2]] # "pending") =>
                (results[p[1]] = "AlreadyExists" \/ results[p[2]] = "AlreadyExists")

\* C22 (amended): when a batch summons the same name twice, at most one of the
\* two tasks succeeds, at most one container is created for the name, and once
\* the first has succeeded the second fails with AlreadyExists; the second
\* succeeds only after the first has failed.
C22_SameNameAtMostOneSucceeds ==
    cli.kind = "summon" =>
       \A p \in SameNamePairs :
          /\ ~(results[p[1]] = "Ok" /\ results[p[2]] = "Ok")
          /\ ~(Created(p[1]) /\ Created(p[2]))
          /\ results[p[1]] = "Ok" => results[p[2]] \in {"pending", "AlreadyExists"}
          /\ results[p[2]] = "Ok" => results[p[1]] \notin {"pending", "Ok", "AlreadyExists"}

C22_Witness ==
    /\ cli.kind = "summon" /\ cli.done
    /\ Len(cli.names) = 2
    /\ cli.names[1] = cli.names[2]
    /\ results = <<"Ok", "AlreadyExists">>
    /\ cli.names[1] \in DOMAIN containers

----------------------------------------------------------------------------
\* Sorcerer::list_apprentices and Sorcerer::cast_spell

ListBegin(t) ==
    /\ CanStart(t)
    /\ ops_started' = ops_started + 1
    /\ task' = [task EXCEPT ![t] = [IdleTask EXCEPT !.pc = "l_wait", !.kind = "list"]]
    /\ UNCHANGED <<phase, pending, apprentices, next_port, containers, api_key_set,
                   reg_lock, hist, allocated, observed>>

\* lines 300-305: lock the registry, collect the names, drop the guard
ListLocked(t, names) ==
    /\ phase = "ready"
    /\ task[t].pc = "l_wait"
    /\ reg_lock = 0
    /\ names \in Orders(list_apprentices)
    /\ task' = [task EXCEPT ![t] = IdleTask]
    /\ hist' = [Returned(hist, "list", <<>>, "Ok", <<>>) EXCEPT ![2].value = names]
    /\ UNCHANGED <<phase, pending, apprentices, next_port, containers, api_key_set,
                   reg_lock, allocated, observed, ops_started>>

\* the SpellResponse messages an apprentice sends (server.rs lines 192-198
\* and 205-211)
SpellReplies ==
    {[success |-> TRUE, result |-> <<"re", "x">>, error |-> <<>>],
     [success |-> FALSE, result |-> <<>>, error |-> <<"llm", "error">>]}

TellBegin(t, name) ==
    /\ CanStart(t)
    /\ ops_started' = ops_started + 1
    /\ task' = [task EXCEPT ![t] = [IdleTask EXCEPT !.pc = "t_wait",
                                    !.kind = "tell", !.name = name]]
    /\ UNCHANGED <<phase, pending, apprentices, next_port, containers, api_key_set,
                   reg_lock, hist, allocated, observed>>

\* lines 274-282: lock the registry, look the record up, take its client
TellLocked(t) ==
    /\ phase = "ready"
    /\ task[t].pc = "t_wait"
    /\ reg_lock = 0
    /\ IF ~contains_key(apprentices, task[t].name)
         THEN Finish(t, "NotFound", "", TRUE)
         ELSE IF ~apprentices[task[t].name].client
         THEN Finish(t, "NotConnected", "", TRUE)
         ELSE /\ task' = [task EXCEPT ![t].pc = "t_rpc"]
              /\ reg_lock' = t
              /\ UNCHANGED hist
    /\ UNCHANGED <<phase, pending, apprentices, next_port, containers, api_key_set,
                   allocated, observed, ops_started>>

\* a variant that returns the result field whatever the success flag says
TellOutcome_ignores_success(r) == [result |-> "Ok", value |-> r.result]

\* lines 292-296: Ok(result) when success, "Tell failed: {error}" otherwise
TellOutcome(r) ==
    IF r.success THEN [result |-> "Ok", value |-> r.result]
                 ELSE [result |-> "TellFailed", value |-> <<"Tell", "failed:">> \o r.error]

\* lines 284-296: client.cast_spell(request).await?, then the reply is read
TellRpc(t, ok, r) ==
    /\ phase = "ready"
    /\ task[t].pc = "t_rpc"
    /\ task' = [task EXCEPT ![t] = IdleTask]
    /\ reg_lock' = 0
    /\ hist' = IF ok
                 THEN [Returned(hist, "tell", task[t].name, TellOutcome(r).result,
                                <<<<"cast_spell", TRUE>>>>)
                          EXCEPT ![2].value = TellOutcome(r).value]
                 ELSE Returned(hist, "tell", task[t].name, "RpcCallFailed",
                               <<<<"cast_spell", FALSE>>>>)
    /\ UNCHANGED <<phase, pending, apprentices, next_port, containers, api_key_set,
                   allocated, observed, ops_started>>

\* two calls at a time reach the sorcerer
QueryTasks == {1, 2}

NextQuery ==
    \/ (DiscoverListFails /\ UNCHANGED orchRest)
    \/ (\E n \in ExistingNames, i, c, w \in BOOLEAN :
            DiscoverOne(n, i, c, w) /\ UNCHANGED orchRest)
    \/ (DiscoverDone /\ UNCHANGED orchRest)
    \/ (\E t \in QueryTasks, n \in Names : SummonBegin(t, n) /\ UNCHANGED orchRest)
    \/ (\E t \in QueryTasks, w \in BOOLEAN : SummonLocked(t, w) /\ UNCHANGED orchRest)
    \/ (\E t \in QueryTasks, ok \in BOOLEAN : SummonCreate(t, ok) /\ UNCHANGED orchRest)
    \/ (\E t \in QueryTasks, ok \in BOOLEAN : SummonStart(t, ok) /\ UNCHANGED orchRest)
    \/ (\E t \in QueryTasks, ok \in BOOLEAN : SummonConnect(t, ok) /\ UNCHANGED orchRest)
    \/ (\E t \in QueryTasks, n \in Names : BanishBegin(t, n) /\ UNCHANGED orchRest)
    \/ (\E t \in QueryTasks : BanishLocked(t) /\ UNCHANGED orchRest)
    \/ (\E t \in QueryTasks, ok \in BOOLEAN : BanishRpc(t, ok) /\ UNCHANGED orchRest)
    \/ (\E t \in QueryTasks, ok \in BOOLEAN : BanishStop(t, ok) /\ UNCHANGED orchRest)
    \/ (\E t \in QueryTasks, ok \in BOOLEAN : BanishRemove(t, ok) /\ UNCHANGED orchRest)
    \/ (\E t \in QueryTasks : ListBegin(t) /\ UNCHANGED orchRest)
    \/ (\E t \in QueryTasks : \E names \in Orders(list_apprentices) :
            ListLocked(t, names) /\ UNCHANGED orchRest)
    \/ (\E t \in QueryTasks, n \in Names : TellBegin(t, n) /\ UNCHANGED orchRest)
    \/ (\E t \in QueryTasks : TellLocked(t) /\ UNCHANGED orchRest)
    \/ (\E t \in QueryTasks, ok \in BOOLEAN, r \in SpellReplies :
            TellRpc(t, ok, r) /\ UNCHANGED orchRest)

\* the sorcerer process with every call of its interface
SpecQuery == InitSorcerer /\ [][NextQuery]_vars

\* Properties of list_apprentices and cast_spell

\* C23: list_apprentices returns exactly the names of the records that have a
\* client, each once: a record without client and a name that was removed are
\* left out, and the call changes nothing in the registry.
C23_ListReturnsConnected ==
    /\ [](hist[2].kind = "list" =>
            /\ hist[2].result = "Ok"
            /\ \A i, j \in DOMAIN hist[2].value :
                 i # j => hist[2].value[i] # hist[2].value[j]
            /\ (hist[1].kind = "banish" /\ hist[1].result # "NotFound") =>
                 \A i \in DOMAIN hist[2].value : hist[2].value[i] # hist[1].name)
    /\ [][\A t \in Tasks :
            (task[t].kind = "list" /\ task'[t].pc = "idle") =>
               /\ {hist'[2].value[i] : i \in DOMAIN hist'[2].value}
                     = {n \in DOMAIN apprentices : apprentices[n].client = TRUE}
               /\ apprentices' = apprentices
               /\ containers' = containers
               /\ next_port' = next_port]_vars

C23_Witness ==
    /\ hist[2].kind = "list"
    /\ Len(hist[2].value) = 1
    /\ \E n \in DOMAIN apprentices : ~apprentices[n].client
    /\ hist[1].kind = "summon" /\ hist[1].result = "Ok"
    /\ hist[2].value = <<hist[1].name>>

\* C24: cast_spell fails with NotFound when the name is not registered and
\* with NotConnected when its record has no client, in both cases without
\* sending an RPC and without changing the registry; otherwise it returns the
\* result of the worker when the reply has success = true and an error that
\* carries the error of the worker when it has not.
C24_TellOutcomes ==
    /\ [](hist[2].kind = "tell" =>
            /\ hist[2].result \in {"NotFound", "NotConnected", "RpcCallFailed",
                                   "Ok", "TellFailed"}
            /\ hist[2].result \in {"NotFound", "NotConnected"} =>
                 hist[2].calls = <<>> /\ hist[2].value = <<>>
            /\ hist[2].result = "Ok" =>
                 /\ hist[2].calls = <<<<"cast_spell", TRUE>>>>
                 /\ \E r \in SpellReplies : r.success /\ hist[2].value = r.result
            /\ hist[2].result = "TellFailed" =>
                 /\ hist[2].calls = <<<<"cast_spell", TRUE>>>>
                 /\ \E r \in SpellReplies :
                      /\ ~r.success
                      /\ SubSeq(hist[2].value, 3, Len(hist[2].value)) = r.error)
    /\ [][\A t \in Tasks :
            (task[t].kind = "tell" /\ task'[t] # task[t]) =>
               /\ apprentices' = apprentices
               /\ containers' = containers
               /\ task[t].pc = "t_wait" =>
                    IF task[t].name \notin DOMAIN apprentices
                      THEN hist'[2].result = "NotFound" /\ task'[t].pc = "idle"
                      ELSE IF ~apprentices[task[t].name].client
                      THEN hist'[2].result = "NotConnected" /\ task'[t].pc = "idle"
                      ELSE task'[t].pc = "t_rpc" /\ hist' = hist]_vars

C24_Witness ==
    /\ hist[1].kind = "tell" /\ hist[1].result = "NotFound"
    /\ hist[2].kind = "tell" /\ hist[2].result = "TellFailed"
    /\ hist[2].value = <<"Tell", "failed:", "llm", "error">>
    /\ apprentices[hist[2].name].client

\* the number of calls of a call log that succeeded
RECURSIVE Succeeded(_)
Succeeded(calls) ==
    IF calls = <<>> THEN 0
    ELSE (IF Head(calls)[2] THEN 1 ELSE 0) + Succeeded(Tail(calls))

\* C25: get_all_status never fails because of one worker: a failed GetStatus
\* leaves the loop running and the worker out of the result map, a record
\* without client is never asked, every worker whose GetStatus succeeds is in
\* the map, and the call returns Ok.
C25_StatusAllToleratesFailures ==
    /\ [](cli.kind = "ps" =>
            /\ \A n \in DOMAIN results :
                 n \in DOMAIN apprentices /\ apprentices[n].client = TRUE
            /\ cli.done =>
                 /\ hist[2].kind = "status" /\ hist[2].result = "Ok"
                 /\ DOMAIN results
                       = {n \in DOMAIN apprentices : apprentices[n].client = TRUE}
                 /\ \A n \in DOMAIN results : results[n] \in {"Ok", "RpcCallFailed"}
                 /\ Len(hist[2].calls) = Cardinality(DOMAIN results)
                 /\ Succeeded(hist[2].calls)
                       = Cardinality({n \in DOMAIN results : results[n] = "Ok"}))
    /\ [][\A t \in CliTasks :
            (task[t].kind = "status" /\ task[t].pc = "st_rpc"
               /\ task'[t].pc # "hung" /\ results' # results) =>
               /\ task'[t].pc = "st_rpc"
               /\ reg_lock' = t
               /\ ~cli'.done
               /\ \E n \in DOMAIN results :
                    /\ results[n] = "pending"
                    /\ \E ok \in BOOLEAN :
                         /\ results' = [results EXCEPT
                                          ![n] = IF ok THEN "Ok" ELSE "RpcCallFailed"]
                         /\ task'[t].calls = Append(task[t].calls, <<"get_status", ok>>)]_vars

C25_Witness ==
    /\ cli.kind = "ps" /\ cli.done
    /\ hist[2].result = "Ok"
    /\ \E n, m \in DOMAIN results : results[n] = "RpcCallFailed" /\ results[m] = "Ok"

----------------------------------------------------------------------------
\* Name validation: summon_apprentice called with names of every length
\* around the limit

\* the name made of n times the character c
Rep(c, n) == [i \in 1..n |-> c]

NameChars == {"a", "e-acute", "-", " "}
NameLengths == {1, 16, 17, 32, 33}

TestNames == {<<>>} \cup {Rep(c, n) : c \in NameChars, n \in NameLengths}

\* Sorcerer::new with no apprentice container in the runtime
InitEmptyRealm ==
    /\ phase = "discover"
    /\ containers = <<>>
    /\ pending = {}
    /\ apprentices = <<>>
    /\ next_port \in StartPorts
    /\ api_key_set \in BOOLEAN
    /\ reg_lock = 0
    /\ port_lock = 0
    /\ task = [t \in Tasks |-> IdleTask]
    /\ hist = <<NoOp, NoOp>>
    /\ allocated = <<>>
    /\ observed = {}
    /\ ops_started = 0

NextNames ==
    \/ (DiscoverListFails /\ UNCHANGED orchRest)
    \/ (DiscoverDone /\ UNCHANGED orchRest)
    \/ (\E t \in Tasks, n \in TestNames : SummonBegin(t, n) /\ UNCHANGED orchRest)

InitNames == InitEmptyRealm /\ InitWorker /\ AgentOff /\ CliOff

SpecNames == InitNames /\ [][NextNames]_vars

\* the rule as the claim words it: 1 to 32 characters, each alphanumeric,
\* '-' or '_'
CharRule(name) ==
    /\ Len(name) >= 1
    /\ Len(name) <= MaxNameLen
    /\ \A i \in 1..Len(name) : is_alphanumeric(name[i]) \/ name[i] \in {"-", "_"}

\* C26: a name is accepted if and only if it has between 1 and 32 characters
\* and every character is alphanumeric, '-' or '_'; summon_apprentice rejects
\* every other name with InvalidName before it touches the registry, the port
\* allocator or the container runtime.
C26_NameAcceptedIffCharRule ==
    /\ \A i \in {1, 2} :
          hist[i].kind = "summon" =>
             /\ hist[i].result = "InvalidName"
             /\ ~CharRule(hist[i].name)
    /\ \A t \in Tasks :
          task[t].kind = "summon" => CharRule(task[t].name)
    /\ apprentices = <<>> /\ containers = <<>> /\ allocated = <<>> /\ reg_lock = 0

----------------------------------------------------------------------------
\* ApprenticeServer::kill and the exit task it spawns

MaxKills == 2
MaxKillCasts == 2

\* the reasons given to kill
Reasons == {<<"bye">>}

KillHandlers == {1, 2}

\* what a step of kill or of the exit task leaves alone
killRest == <<orchVars, agentVars, cliVars, lockVars>>

\* server.rs lines 252-265: spawn the exit task and answer at once; no lock is
\* taken and no handler is awaited
Kill(reason) ==
    /\ process.alive
    /\ process.exit_tasks < MaxKills
    /\ process' = [process EXCEPT !.exit_tasks = @ + 1]
    /\ reply' = [rpc |-> "kill", success |-> TRUE,
                 message |-> <<"Fading", "away">> \o reason]
    /\ UNCHANGED <<state, spells_cast, last_spell_time, chat_history, handler,
                   casts_started, casts_ok>>

\* a variant in which the exit task lets the requests in flight finish first
Exit_waits_for_casts ==
    /\ process.alive
    /\ process.exit_tasks > 0
    /\ \A h \in Handlers : handler[h].pc = "idle"
    /\ process' = [process EXCEPT !.alive = FALSE]
    /\ UNCHANGED workerVars

\* server.rs lines 256-259: the sleep of a spawned task is over,
\* std::process::exit(0) ends the process with every handler in it
Exit ==
    /\ process.alive
    /\ process.exit_tasks > 0
    /\ process' = [process EXCEPT !.alive = FALSE]
    /\ UNCHANGED workerVars

\* the server answers requests as long as the process lives
NextKill ==
    \/ (\E h \in KillHandlers, inc \in Incantations :
            process.alive /\ CastBegin(h, inc, MaxKillCasts) /\ UNCHANGED workerRest)
    \/ (\E h \in KillHandlers : process.alive /\ CastRead(h) /\ UNCHANGED workerRest)
    \/ (\E h \in KillHandlers, ok \in BOOLEAN :
            process.alive /\ CastLlm(h, ok) /\ UNCHANGED workerRest)
    \/ (\E h \in KillHandlers : process.alive /\ CastOk(h, 1) /\ UNCHANGED workerRest)
    \/ (\E h \in KillHandlers : process.alive /\ CastErr(h) /\ UNCHANGED workerRest)
    \/ (process.alive /\ GetStatus /\ UNCHANGED workerRest)
    \/ (\E reason \in Reasons : Kill(reason) /\ UNCHANGED killRest)
    \/ (Exit /\ UNCHANGED killRest)

\* the runtime runs a spawned task whose timer has fired
SpecKill == InitApprentice /\ [][NextKill]_vars /\ WF_vars(Exit /\ UNCHANGED killRest)

\* C27: kill answers with success at once, whatever the requests in flight
\* (the step changes no handler and waits for none), the exit it scheduled is
\* never taken back by a later request or invocation outcome, and once kill
\* has answered the process eventually exits.
C27_KillAnswersAndProcessExits ==
    /\ [][(process'.exit_tasks # process.exit_tasks) =>
            /\ process'.exit_tasks = process.exit_tasks + 1
            /\ process'.alive
            /\ reply'.rpc = "kill" /\ reply'.success = TRUE
            /\ handler' = handler
            /\ state' = state]_vars
    /\ [][(~process.alive) => process' = process /\ workerVars' = workerVars]_vars
    /\ [](reply.rpc = "kill" => <>(~process.alive))

C27_Witness ==
    /\ ~process.alive
    /\ reply.rpc = "kill"
    /\ \E h \in Handlers : handler[h].pc = "c_llm"

----------------------------------------------------------------------------
\* Properties of the command line

\* main.rs lines 61-72 and 298: the exit code of the sorcerer process once it
\* has ended.  Sorcerer::new().await? returns the error of the runtime (exit
\* code 1), an overflow panic aborts the process (exit code 101), and Ok(())
\* at the end of the command gives 0.
exit_code ==
    IF phase = "failed" THEN Some(1)
    ELSE IF phase = "crashed" THEN Some(101)
    ELSE IF cli.done THEN Some(0)
    ELSE None

\* C28 (as stated): every run of the command line whose arguments parsed ends
\* with exit code 0.
C28_ParsedCommandExitsZero ==
    exit_code # None => exit_code = Some(0)

\* C29: in a batch summon or rm nothing is reported, neither a per-name result
\* nor the summary, while a call of the batch is still running: the results
\* are printed in one step that is taken only when every call has returned,
\* and the summary counts the results of all of them.
C29_ReportAfterJoinAll ==
    /\ []((cli.kind \in {"summon", "rm"} /\ (cli.done \/ summary # None)) =>
            /\ cli.done
            /\ \A t \in CliTasks : task[t].pc = "idle"
            /\ Len(results) = Len(cli.names)
            /\ \A i \in DOMAIN results : results[i] # "pending"
            /\ summary # None =>
                 /\ Len(cli.names) > 1
                 /\ Unwrap(summary)[2] = Len(cli.names)
                 /\ Unwrap(summary)[1]
                       = Cardinality({i \in DOMAIN results : results[i] = "Ok"}))
    /\ [][(cli.kind \in {"summon", "rm"} /\ cli'.done /\ ~cli.done) =>
            /\ \A t \in CliTasks : task[t].pc = "idle"
            /\ results' = results]_vars

C29_Witness ==
    /\ cli.kind = "summon" /\ cli.done
    /\ Len(cli.names) = 3
    /\ summary = Some(<<1, 3>>)
    /\ results[3] = "Ok"

\* Properties of the chat log in agent mode

\* C30: a successful cast_spell appends the request and the raw LLM response
\* to the chat history as one turn, in agent mode as well, where the value
\* returned is the report of the executed commands and not the response;
\* with agent mode off the value returned is the raw response that is logged.
C30_LogKeepsRawResponse ==
    [][\A h \in Handlers :
         (handler[h].pc = "c_ok" /\ handler'[h].pc = "idle") =>
            LET raw == Response(handler[h].incantation)
                n == Len(chat_history')
            IN  /\ reply'.rpc = "cast_spell" /\ reply'.success = TRUE
                /\ n = Len(chat_history) + 2
                /\ SubSeq(chat_history', 1, n - 2) = chat_history
                /\ chat_history'[n - 1]
                      = [speaker |-> "Sorcerer", text |-> handler[h].incantation]
                /\ chat_history'[n] = [speaker |-> ApprenticeName, text |-> raw]
                /\ ~agent_mode => reply'.result = raw
                /\ (agent_mode /\ handler[h].incantation \in BatchIncantations) =>
                      /\ reply'.result # raw
                      /\ Marks(reply'.result) = OutcomeMarks(handler[h].done)
                      /\ chat_history'[n].text # reply'.result]_vars

C30_Witness ==
    /\ agent_mode
    /\ reply.rpc = "cast_spell" /\ reply.success = TRUE
    /\ Marks(reply.result) = <<"+", "x", "+">>
    /\ Len(chat_history) >= 2
    /\ chat_history[Len(chat_history)].text = Response(<<"files">>)
    /\ chat_history[Len(chat_history) - 1].text = <<"files">>

----------------------------------------------------------------------------
\* The report of a batch with listings and searches

RenderIncantations == {<<"ls">>, <<"grep">>, <<"files">>}

\* one request at a time is enough to see a report
RenderHandlers == {1}

NextRender ==
    \/ (\E h \in RenderHandlers, inc \in RenderIncantations :
            CastBegin(h, inc, MaxAgentCasts) /\ UNCHANGED workerRest)
    \/ (\E h \in RenderHandlers : CastRead(h) /\ UNCHANGED workerRest)
    \/ (\E h \in RenderHandlers, ok \in BOOLEAN : CastLlm(h, ok) /\ UNCHANGED workerRest)
    \/ (\E h \in RenderHandlers : AgentParse(h) /\ UNCHANGED agentRest)
    \/ (\E h \in RenderHandlers : AgentLock(h) /\ UNCHANGED agentRest)
    \/ (\E h \in RenderHandlers : AgentExec(h) /\ UNCHANGED agentRest)
    \/ (\E h \in RenderHandlers : AgentJoin(h) /\ UNCHANGED agentRest)
    \/ (\E h \in RenderHandlers : CastOk(h, 1) /\ UNCHANGED workerRest)
    \/ (\E h \in RenderHandlers : CastErr(h) /\ UNCHANGED workerRest)

SpecRender == InitAutonomous /\ [][NextRender]_vars

\* the number of lines the claim gives to one executed command: a listing or
\* a search of k entries shown up to cap has a count line, min(k, cap) entry
\* lines and one more line only when k > cap; a command without result has none
LinesOf(c) ==
    LET shown(k, cap) == 1 + (IF k < cap THEN k ELSE cap) + (IF k > cap THEN 1 ELSE 0)
    IN  CASE c.cmd = "List" -> shown(Dirs[c.arg1], 10)
          [] c.cmd = "Search" -> shown(Patterns[c.arg1], 5)
          [] c.cmd = "Think" -> 0
          [] OTHER -> 1

RECURSIVE TotalLines(_)
TotalLines(cmds) ==
    IF cmds = <<>> THEN 0 ELSE LinesOf(Head(cmds)) + TotalLines(Tail(cmds))

\* the lines of a report: the words between the newlines
RECURSIVE SplitLines(_)
SplitLines(text) ==
    IF text = <<>> THEN <<>>
    ELSE LET nl == {i \in 1..Len(text) : text[i] = "\n"}
         IN  IF nl = {} THEN <<text>>
             ELSE LET i == CHOOSE j \in nl : \A k \in nl : j <= k
                  IN  <<SubSeq(text, 1, i - 1)>> \o SplitLines(SubSeq(text, i + 1, Len(text)))

\* the position of the first line of the k-th command of a batch
FirstLine(cmds, k) == TotalLines(SubSeq(cmds, 1, k - 1)) + 1

\* C31: the report is the renderings of the commands joined by newlines in
\* batch order; a listing of k entries has a count line, at most 10 entry
\* lines and, only when k > 10, one "... and (k-10) more" line; a search of k
\* matches has a count line, at most 5 match lines and, only when k > 5, one
\* "... and (k-5) more" line; a command without result has no line.
C31_ReportLines ==
    \A h \in Handlers :
       (/\ agent_mode
        /\ handler[h].pc = "c_ok"
        /\ handler[h].incantation \in {<<"ls">>, <<"grep">>, <<"files">>})
       => LET batch == BatchOf(Response(handler[h].incantation))
              lines == SplitLines(Unwrap(handler[h].final))
          IN  /\ Len(lines) = TotalLines(batch)
              /\ \A k \in 1..Len(batch) :
                   LET c == batch[k]
                       at == FirstLine(batch, k)
                       n == LinesOf(c)
                   IN  /\ c.cmd = "List" =>
                            /\ lines[at] = <<"Found", to_string(Dirs[c.arg1]), "files">>
                            /\ \A i \in 1..(IF Dirs[c.arg1] < 10 THEN Dirs[c.arg1] ELSE 10) :
                                 lines[at + i][3] = c.arg1 \o "/" \o to_string(i)
                            /\ Dirs[c.arg1] > 10 =>
                                 lines[at + n - 1]
                                    = <<" ", "...", "and", to_string(Dirs[c.arg1] - 10), "more">>
                       /\ c.cmd = "Search" =>
                            /\ lines[at] = <<"Found", to_string(Patterns[c.arg1]), "matches">>
                            /\ \A i \in 1..(IF Patterns[c.arg1] < 5 THEN Patterns[c.arg1] ELSE 5) :
                                 lines[at + i][4] = to_string(i)
                            /\ Patterns[c.arg1] > 5 =>
                                 lines[at + n - 1]
                                    = <<" ", "...", "and", to_string(Patterns[c.arg1] - 5), "more">>
                       /\ c.cmd \in {"Write", "Delete"} => lines[at][1] \in {"+", "x"}

C31_Witness ==
    /\ agent_mode
    /\ handler[1].pc = "c_ok"
    /\ handler[1].incantation = <<"ls">>
    /\ Len(SplitLines(Unwrap(handler[1].final))) = 24
    /\ SplitLines(Unwrap(handler[1].final))[23] = <<" ", "...", "and", "1", "more">>
    /\ SplitLines(Unwrap(handler[1].final))[24] = <<"Found", "0", "files">>

\* C32: the summary line of summon and rm is printed if and only if more than
\* one name was given: a run for a single name ends without summary whether
\* its call succeeded or failed, a run for several names ends with it, and no
\* summary exists before the run has ended.
C32_SummaryIffSeveralNames ==
    cli.kind \in {"summon", "rm"} =>
       /\ cli.done => (summary # None <=> Len(cli.names) > 1)
       /\ ~cli.done => summary = None

C32_Witness ==
    /\ cli.kind = "rm" /\ cli.done
    /\ Len(cli.names) = 1
    /\ results = <<"ContainerRemoveFailed">>
    /\ summary = None

\* the names of a list
Range(q) == {q[i] : i \in DOMAIN q}

\* C33: with --all the names submitted for removal are exactly those that
\* list_apprentices returns when the command starts, each once, and the names
\* typed are ignored: no call is ever made for a name that was not listed; when
\* nothing is listed the command ends at once and removes nothing.
C33_AllFlagRemovesListed ==
    /\ []((cli.kind = "rm" /\ cli.all) =>
            /\ \A t \in CliTasks :
                 task[t].kind = "banish" => task[t].name \in Range(cli.names)
            /\ \A i \in {1, 2} :
                 hist[i].kind = "banish" => hist[i].name \in Range(cli.names)
            /\ cli.names = <<>> =>
                 /\ cli.done
                 /\ results = <<>>
                 /\ hist = <<NoOp, NoOp>>
                 /\ \A t \in CliTasks : task[t] = IdleTask)
    /\ [][(cli.kind = "none" /\ cli'.kind = "rm" /\ cli'.all) =>
            LET listed == {n \in DOMAIN apprentices : apprentices[n].client = TRUE}
            IN  /\ Range(cli'.names) = listed
                /\ Len(cli'.names) = Cardinality(listed)
                /\ \A t \in CliTasks :
                     IF t <= Len(cli'.names)
                       THEN task'[t].kind = "banish" /\ task'[t].name = cli'.names[t]
                       ELSE task'[t] = IdleTask
                /\ apprentices' = apprentices
                /\ containers' = containers]_vars

C33_Witness ==
    /\ cli.kind = "rm" /\ cli.all /\ cli.done
    /\ cli.given = <<<<"b", "-", "7">>, <<"a", " ">>>>
    /\ cli.names = <<<<"a">>>>
    /\ results = <<"Ok">>
    /\ <<"b", "-", "7">> \in DOMAIN apprentices
    /\ <<"b", "-", "7">> \in DOMAIN containers
    /\ <<"a">> \notin DOMAIN containers

----------------------------------------------------------------------------
\* The show command: Commands::Show, Sorcerer::get_chat_history and
\* ApprenticeServer::get_chat_history

\* A usize of 64 bits is four limbs of 16 bits, most significant first.
Limb == 65536
DefaultShowLines == 1000

Zero == <<0, 0, 0, 0>>

\* the usize of a number below 2^31
FromNat(n) == <<0, 0, n \div Limb, n % Limb>>

\* u < v on usize
Less(u, v) ==
    \E i \in 1..4 : u[i] < v[i] /\ \A j \in 1..(i - 1) : u[j] = v[j]

\* sorcerer.rs line 381: `lines as i32` keeps the low 32 bits, read as two's
\* complement
as_i32(u) ==
    IF u[3] >= Limb \div 2 THEN (u[3] - Limb) * Limb + u[4]
                           ELSE u[3] * Limb + u[4]

\* server.rs line 234: `lines as usize` extends the sign of the i32
as_usize(v) ==
    IF v >= 0 THEN <<0, 0, v \div Limb, v % Limb>>
              ELSE <<Limb - 1, Limb - 1, (v \div Limb) + Limb, v % Limb>>

\* server.rs lines 234-247: the slice of the history for the i32 of the request
HistorySlice(log, lines) ==
    LET n == as_usize(lines)
    IN  IF n = Zero THEN log
        ELSE LET start == IF Less(n, FromNat(Len(log))) THEN Len(log) - n[4] ELSE 0
             IN  SubSeq(log, start + 1, Len(log))

\* a variant whose default is the four lines of the ps command
history_lines_four(lines) == IF lines = None THEN FromNat(4) ELSE Unwrap(lines)

\* main.rs line 267: lines.unwrap_or(1000)
history_lines(lines) ==
    IF lines = None THEN FromNat(DefaultShowLines) ELSE Unwrap(lines)

\* the values of --lines: 0, 1, 3, 1000, 2^31 - 1, 2^31, 2^32 - 1, 2^32, 2^32 + 1
ShowLines ==
    {Zero, FromNat(1), FromNat(3), FromNat(DefaultShowLines),
     <<0, 0, 32767, 65535>>, <<0, 0, 32768, 0>>, <<0, 0, 65535, 65535>>,
     <<0, 1, 0, 0>>, <<0, 1, 0, 1>>}

\* main.rs lines 264-268, sorcerer.rs lines 380-387, server.rs lines 230-249:
\* show asks a connected apprentice for its history
Show(lines) ==
    /\ reply' = [rpc |-> "get_chat_history",
                 lines |-> as_i32(history_lines(lines)),
                 history |-> HistorySlice(chat_history, as_i32(history_lines(lines))),
                 asked |-> lines]
    /\ UNCHANGED <<state, spells_cast, last_spell_time, chat_history, handler,
                   casts_started, casts_ok>>

\* the requests are handled one at a time here
ShowHandlers == {1}

NextShow ==
    \/ (\E h \in ShowHandlers : CastBegin(h, <<"x">>, MaxCastsLog) /\ UNCHANGED workerRest)
    \/ (\E h \in ShowHandlers : CastRead(h) /\ UNCHANGED workerRest)
    \/ (\E h \in ShowHandlers, ok \in BOOLEAN : CastLlm(h, ok) /\ UNCHANGED workerRest)
    \/ (\E h \in ShowHandlers : CastOk(h, 1) /\ UNCHANGED workerRest)
    \/ (\E h \in ShowHandlers : CastErr(h) /\ UNCHANGED workerRest)
    \/ (\E lines \in {None} \cup {Some(n) : n \in ShowLines} :
            Show(lines) /\ UNCHANGED workerRest)

SpecShow == InitApprentice /\ [][NextShow]_vars

\* C34: show without --lines returns the whole chat log of the worker, in
\* every state of the worker, the full log of 100 entries included.
C34_DefaultShowReturnsWholeLog ==
    [][(reply'.rpc = "get_chat_history" /\ reply' # reply /\ reply'.asked = None) =>
          /\ reply'.history = chat_history
          /\ chat_history' = chat_history]_vars

C34_Witness ==
    /\ reply.rpc = "get_chat_history"
    /\ reply.asked = None
    /\ Len(reply.history) = HistoryCap
    /\ Len(chat_history) = HistoryCap
    /\ casts_ok > HistoryCap \div 2

\* C35 (as stated): for every line count n, a usize, the entries returned for
\* n are the last n entries of the chat log, the whole log when n is 0 or at
\* least the length of the log.
C35_ShowReturnsLastN ==
    [][(reply'.rpc = "get_chat_history" /\ reply' # reply /\ reply'.asked # None) =>
          LET n == Unwrap(reply'.asked)
              size == Len(chat_history)
          IN  reply'.history =
                 IF n = Zero \/ ~Less(n, FromNat(size))
                   THEN chat_history
                   ELSE SubSeq(chat_history, size - n[4] + 1, size)]_vars

----------------------------------------------------------------------------
\* C36 (as stated): whenever at least one cast_spell call has started and not
\* yet returned, get_status reports the state "casting"; a reported idle or
\* error state means that no call is in flight.
C36_StatusCastingWhileInFlight ==
    [][(reply'.rpc = "get_status" /\ handler' = handler /\ state' = state
        /\ InFlight # {}) => reply'.state = "casting"]_vars

----------------------------------------------------------------------------
\* the handlers that run a command batch
Executing == {h \in Handlers : handler[h].pc = "c_exec"}

\* C37: the command batches of two cast_spell calls never interleave: at most
\* one handler runs a batch, it holds the command executor, and every step
\* that runs a command or changes the remember/recall memory or the files
\* belongs to that handler, from its first command to its last.
C37_BatchesNeverInterleave ==
    /\ [](/\ Cardinality(Executing) <= 1
          /\ \A h \in Handlers : h \in Executing <=> exec_lock = h)
    /\ [][\A h \in Handlers :
            (\/ Len(handler'[h].done) > Len(handler[h].done)
             \/ ((memory' # memory \/ files' # files) /\ exec_lock = h))
            => /\ exec_lock = h
               /\ exec_lock' = h
               /\ \A g \in Handlers \ {h} :
                     /\ handler'[g].done = handler[g].done
                     /\ handler'[g].results = handler[g].results
                     /\ handler[g].pc # "c_exec"
               /\ (memory' # memory \/ files' # files =>
                     Len(handler'[h].done) > Len(handler[h].done))]_vars
    /\ [][(memory' # memory \/ files' # files) => exec_lock # 0]_vars

C37_Witness ==
    \E h, g \in Handlers :
        /\ h # g
        /\ handler[h].pc = "c_exec"
        /\ handler[h].done # <<>>
        /\ handler[h].todo # <<>>
        /\ memory # <<>>
        /\ handler[g].pc = "c_lock"
        /\ handler[g].todo # <<>>

----------------------------------------------------------------------------
\* the results of a summon_apprentice call that failed
SummonFailures ==
    {"InvalidName", "AlreadyExists", "EnvVarMissing", "ContainerCreateFailed",
     "ContainerStartFailed", "RpcUnreachable"}

\* a step of the summon_apprentice call of task t: the call starts, or the
\* task of a running call moves
SummonStep(t) ==
    \/ task[t].kind = "summon" /\ task'[t] # task[t]
    \/ task[t].pc = "idle" /\ task'[t].kind = "summon"
    \/ /\ CanStart(t)
       /\ ops_started' # ops_started
       /\ task' = task
       /\ hist'[2].kind = "summon"

\* the step at which the summon_apprentice call of task t returns Ok
SummonSucceeds(t) ==
    /\ task[t].kind = "summon"
    /\ task[t].pc # "idle"
    /\ task'[t].pc = "idle"
    /\ hist'[2].result = "Ok"

\* C38: a summon_apprentice call that fails at any step (invalid name, name
\* registered, missing API key, create or start failure, connect failure)
\* leaves the registry as it was: no step of a call changes the registry
\* except the step that returns Ok, which inserts one record that has an RPC
\* client and leaves every other record alone; while a call holds the
\* registry nobody else changes it; and once discovery is over a name enters
\* the registry only through such a step.
C38_FailedCreateLeavesRegistry ==
    [][/\ \A t \in Tasks :
            /\ (SummonStep(t) /\ ~SummonSucceeds(t)) => apprentices' = apprentices
            /\ (SummonStep(t) /\ task'[t].pc = "idle" /\ task[t].pc # "idle"
                /\ ~SummonSucceeds(t)) => hist'[2].result \in SummonFailures
            /\ SummonSucceeds(t) =>
                  /\ task[t].name \notin DOMAIN apprentices
                  /\ task[t].calls = <<<<"create", TRUE>>, <<"start", TRUE>>>>
                  /\ apprentices' = MapInsert(apprentices, task[t].name,
                                        apprentices'[task[t].name])
                  /\ apprentices'[task[t].name].client = TRUE
            /\ (task[t].kind = "summon" /\ reg_lock = t /\ ~SummonSucceeds(t))
                  => apprentices' = apprentices
       /\ (phase = "ready" /\ DOMAIN apprentices' \ DOMAIN apprentices # {})
             => \E t \in Tasks : SummonSucceeds(t)]_vars

\* a summon that failed at the connect step after an earlier summon succeeded
C38_Witness ==
    /\ hist[2].kind = "summon"
    /\ hist[2].result = "RpcUnreachable"
    /\ hist[1].kind = "summon"
    /\ hist[1].result = "Ok"
    /\ hist[1].name \in DOMAIN apprentices
    /\ hist[2].name \notin DOMAIN apprentices
    /\ hist[2].name \in DOMAIN containers

----------------------------------------------------------------------------
\* The two mutexes of the Sorcerer, apprentices and next_port, each
\* acquisition a step of its own (src/src/sorcerer.rs)

\* what a step that takes or drops the next_port mutex leaves alone
locksRest == <<workerVars, agentVars, cliVars, procVars>>

\* the holder of the guards of Sorcerer::new, which runs before any command
Startup == NumTasks + 1

\* line 122: let mut apprentices = self.apprentices.lock().await
DiscoverLockRegistry ==
    /\ phase = "discover"
    /\ reg_lock = 0
    /\ reg_lock' = Startup
    /\ UNCHANGED <<phase, pending, apprentices, next_port, containers, api_key_set,
                   task, hist, allocated, observed, ops_started, port_lock>>

\* line 123: let mut next_port = self.next_port.lock().await
DiscoverLockPort ==
    /\ phase = "discover"
    /\ reg_lock = Startup
    /\ port_lock = 0
    /\ port_lock' = Startup
    /\ UNCHANGED orchVars

\* lines 125-186: the loop runs under both guards
DiscoverOneLocked(n, inspect_ok, connect_ok, wraps) ==
    /\ reg_lock = Startup
    /\ port_lock = Startup
    /\ DiscoverOne(n, inspect_ok, connect_ok, wraps)
    /\ UNCHANGED port_lock

\* lines 188-189: Ok(()); both guards are dropped
DiscoverDoneLocked ==
    /\ phase = "discover"
    /\ reg_lock = Startup
    /\ port_lock = Startup
    /\ pending = {}
    /\ phase' = "ready"
    /\ reg_lock' = 0
    /\ port_lock' = 0
    /\ UNCHANGED <<pending, apprentices, next_port, containers, api_key_set,
                   task, hist, allocated, observed, ops_started>>

\* line 200: let mut apprentices = self.apprentices.lock().await
SummonLockRegistry(t) ==
    /\ phase = "ready"
    /\ task[t].pc = "s_wait"
    /\ reg_lock = 0
    /\ reg_lock' = t
    /\ task' = [task EXCEPT ![t].pc = "s_check"]
    /\ UNCHANGED <<phase, pending, apprentices, next_port, containers, api_key_set,
                   hist, allocated, observed, ops_started, port_lock>>

\* lines 202-204: a registered name is rejected
SummonCheck(t) ==
    /\ phase = "ready"
    /\ task[t].pc = "s_check"
    /\ IF contains_key(apprentices, task[t].name)
         THEN Finish(t, "AlreadyExists", "", TRUE)
         ELSE /\ task' = [task EXCEPT ![t].pc = "s_port"]
              /\ UNCHANGED <<hist, reg_lock>>
    /\ UNCHANGED <<phase, pending, apprentices, next_port, containers, api_key_set,
                   allocated, observed, ops_started, port_lock>>

\* line 207: let mut next_port = self.next_port.lock().await
SummonLockPort(t) ==
    /\ phase = "ready"
    /\ task[t].pc = "s_port"
    /\ port_lock = 0
    /\ port_lock' = t
    /\ task' = [task EXCEPT ![t].pc = "s_bump"]
    /\ UNCHANGED <<phase, pending, apprentices, next_port, containers, api_key_set,
                   reg_lock, hist, allocated, observed, ops_started>>

\* a variant that keeps the guard of next_port until the call returns, and
\* then leaks it
SummonBump_keeps_port(t, wraps) ==
    /\ phase = "ready"
    /\ task[t].pc = "s_bump"
    /\ UNCHANGED port_lock
    /\ IF next_port + 1 > U16Max /\ ~wraps
         THEN /\ phase' = "crashed"
              /\ UNCHANGED <<task, hist, reg_lock, next_port, allocated>>
         ELSE /\ next_port' = (next_port + 1) % (U16Max + 1)
              /\ allocated' = Append(allocated, next_port)
              /\ UNCHANGED phase
              /\ IF api_key_set
                   THEN /\ task' = [task EXCEPT ![t].pc = "s_create", ![t].port = next_port]
                        /\ UNCHANGED <<hist, reg_lock>>
                   ELSE Finish(t, "EnvVarMissing", "", TRUE)
    /\ UNCHANGED <<pending, apprentices, containers, api_key_set, observed, ops_started>>

\* lines 206-216: take the port, drop the guard of next_port at the end of
\* the block, read the API key.  A panic on the overflow ends the process.
SummonBump(t, wraps) ==
    /\ phase = "ready"
    /\ task[t].pc = "s_bump"
    /\ port_lock' = 0
    /\ IF next_port + 1 > U16Max /\ ~wraps
         THEN /\ phase' = "crashed"
              /\ UNCHANGED <<task, hist, reg_lock, next_port, allocated>>
         ELSE /\ next_port' = (next_port + 1) % (U16Max + 1)
              /\ allocated' = Append(allocated, next_port)
              /\ UNCHANGED phase
              /\ IF api_key_set
                   THEN /\ task' = [task EXCEPT ![t].pc = "s_create", ![t].port = next_port]
                        /\ UNCHANGED <<hist, reg_lock>>
                   ELSE Finish(t, "EnvVarMissing", "", TRUE)
    /\ UNCHANGED <<pending, apprentices, containers, api_key_set, observed, ops_started>>

\* line 309: let mut apprentices = self.apprentices.lock().await
BanishLockRegistry(t) ==
    /\ phase = "ready"
    /\ task[t].pc = "b_wait"
    /\ reg_lock = 0
    /\ reg_lock' = t
    /\ task' = [task EXCEPT ![t].pc = "b_take"]
    /\ UNCHANGED <<phase, pending, apprentices, next_port, containers, api_key_set,
                   hist, allocated, observed, ops_started, port_lock>>

\* lines 310-312: take the record out of the map, or return "not found"
BanishTake(t) ==
    /\ phase = "ready"
    /\ task[t].pc = "b_take"
    /\ IF contains_key(apprentices, task[t].name)
         THEN /\ apprentices' = MapRemove(apprentices, task[t].name)
              /\ task' = [task EXCEPT ![t].rec = Some(apprentices[task[t].name]),
                                      ![t].pc = IF apprentices[task[t].name].client
                                                  THEN "b_rpc" ELSE "b_stop"]
              /\ UNCHANGED <<hist, reg_lock>>
         ELSE BanishNotFound(t)
    /\ UNCHANGED <<phase, pending, next_port, containers, api_key_set, allocated,
                   observed, ops_started, port_lock>>

\* the steps of Sorcerer::new
StartupStep ==
    \/ (DiscoverListFails /\ reg_lock = 0 /\ UNCHANGED orchRest)
    \/ (DiscoverLockRegistry /\ UNCHANGED locksRest)
    \/ (DiscoverLockPort /\ UNCHANGED locksRest)
    \/ (\E n \in ExistingNames, i, c, w \in BOOLEAN :
            DiscoverOneLocked(n, i, c, w) /\ UNCHANGED locksRest)
    \/ (DiscoverDoneLocked /\ UNCHANGED locksRest)

\* the steps of the call of task t once it has started; every call to the
\* container runtime and to an apprentice returns
LockStep(t) ==
    \/ (SummonLockRegistry(t) /\ UNCHANGED locksRest)
    \/ (SummonCheck(t) /\ UNCHANGED locksRest)
    \/ (SummonLockPort(t) /\ UNCHANGED locksRest)
    \/ (\E w \in BOOLEAN : SummonBump(t, w) /\ UNCHANGED locksRest)
    \/ (\E ok \in BOOLEAN : SummonCreate(t, ok) /\ UNCHANGED orchRest)
    \/ (\E ok \in BOOLEAN : SummonStart(t, ok) /\ UNCHANGED orchRest)
    \/ (\E ok \in BOOLEAN : SummonConnect(t, ok) /\ UNCHANGED orchRest)
    \/ (BanishLockRegistry(t) /\ UNCHANGED locksRest)
    \/ (BanishTake(t) /\ UNCHANGED locksRest)
    \/ (\E ok \in BOOLEAN : BanishRpc(t, ok) /\ UNCHANGED orchRest)
    \/ (\E ok \in BOOLEAN : BanishStop(t, ok) /\ UNCHANGED orchRest)
    \/ (\E ok \in BOOLEAN : BanishRemove(t, ok) /\ UNCHANGED orchRest)

\* two calls at a time contend for the locks; an invalid name is rejected
\* before any lock is taken, so the calls are made with valid names
LockTasks == {1, 2}

NextLocks ==
    \/ StartupStep
    \/ (\E t \in LockTasks, n \in ValidNames : SummonBegin(t, n) /\ UNCHANGED orchRest)
    \/ (\E t \in LockTasks, n \in ValidNames : BanishBegin(t, n) /\ UNCHANGED orchRest)
    \/ (\E t \in LockTasks : LockStep(t))

\* the tasks are polled by the runtime until they complete, and the mutexes
\* of tokio are fair
SpecLocks ==
    /\ InitSorcerer
    /\ [][NextLocks]_vars
    /\ WF_vars(StartupStep)
    /\ \A t \in LockTasks : WF_vars(LockStep(t))

\* the locks a task waits for
WaitsRegistry(t) == task[t].pc \in {"s_wait", "b_wait"}
WaitsPort(t) == task[t].pc = "s_port"

\* C39: the two locks of the Sorcerer cannot deadlock.  Whoever holds the
\* port lock holds the registry lock and took the registry lock first; nobody
\* waits for a lock it holds; a task leaves its wait for the registry lock
\* only by getting the lock; and, every runtime and RPC call returning, every
\* started task of two concurrent calls finishes (a panic of the process
\* ends every task with it).
C39_LocksNeverDeadlock ==
    /\ [](/\ port_lock # 0 => reg_lock = port_lock
          /\ \A t \in Tasks : /\ WaitsRegistry(t) => reg_lock # t
                              /\ WaitsPort(t) => port_lock # t /\ reg_lock = t
                              /\ task[t].pc = "idle" => reg_lock # t /\ port_lock # t)
    /\ [][/\ (port_lock' # port_lock /\ port_lock' # 0) =>
                 /\ port_lock = 0
                 /\ reg_lock = port_lock'
                 /\ reg_lock' = port_lock'
          /\ (reg_lock' # reg_lock /\ reg_lock' # 0) =>
                 /\ reg_lock = 0
                 /\ port_lock # reg_lock'
          /\ \A t \in Tasks :
                 (WaitsRegistry(t) /\ task'[t].pc # task[t].pc) => reg_lock' = t]_vars
    /\ \A t \in LockTasks :
          (task[t].pc # "idle") ~> (task[t].pc = "idle" \/ phase = "crashed")

\* two summons at once: one holds both locks, the other waits for the registry
C39_Witness ==
    \E t, u \in Tasks :
        /\ t # u
        /\ reg_lock = t
        /\ port_lock = t
        /\ task[t].pc = "s_bump"
        /\ WaitsRegistry(u)
        /\ phase = "ready"

----------------------------------------------------------------------------
\* the step at which the cast_spell call of handler h returns
Returns(h) == handler[h].pc # "idle" /\ handler'[h].pc = "idle"

\* C40: spells_cast is the number of cast_spell calls that returned success:
\* it starts at 0, a call that returns success adds one to it and appends
\* one turn to the chat history, a call that fails changes neither, nothing
\* else changes it, and last_spell_time is unset exactly while it is 0.
C40_CountIsSuccessfulCasts ==
    /\ [](/\ spells_cast = casts_ok
          /\ Len(chat_history) = Min(2 * spells_cast, HistoryCap)
          /\ (last_spell_time = None <=> spells_cast = 0))
    /\ [][/\ \A h \in Handlers :
               Returns(h) =>
                  IF reply'.success
                    THEN /\ spells_cast' = spells_cast + 1
                         /\ chat_history' =
                               Trim(chat_history \o
                                    SubSeq(chat_history', Len(chat_history') - 1,
                                           Len(chat_history')))
                         /\ chat_history'[Len(chat_history')].speaker = ApprenticeName
                         /\ chat_history'[Len(chat_history') - 1].speaker = "Sorcerer"
                         /\ last_spell_time' # None
                    ELSE /\ spells_cast' = spells_cast
                         /\ chat_history' = chat_history
                         /\ last_spell_time' = last_spell_time
          /\ (spells_cast' # spells_cast \/ chat_history' # chat_history) =>
               \E h \in Handlers : Returns(h) /\ reply'.rpc = "cast_spell"
                                   /\ reply'.success]_vars

\* a failed cast after two successful ones
C40_Witness ==
    /\ spells_cast = 2
    /\ casts_started = 3
    /\ reply.rpc = "cast_spell"
    /\ ~reply.success
    /\ Len(chat_history) = 4
    /\ last_spell_time # None
    /\ \A h \in Handlers : handler[h].pc = "idle"

====
